---- MODULE Spec2Model ----
(***************************************************************************)
(* Model of the ntex I/O pumps: ReadContext / WriteContext (ntex-io        *)
(* tasks.rs) and the async-std ReadTask / WriteTask / flush_io             *)
(* (ntex-rt asyncstd.rs).                                                  *)
(*                                                                         *)
(* Bytes are modelled by their sequence number: the k-th byte deposited    *)
(* into write_buf is the value k, and the k-th byte the transport          *)
(* delivers is the value k.  A handler (one poll of a task) is one         *)
(* action.  Handlers are written as operators over a record `w` of the     *)
(* whole state and return the SET of states the handler can end in, one    *)
(* per choice of the transport's and the chain's answers.  `plog` is the   *)
(* ordered list of the effects of the handler that ran last, each with a   *)
(* snapshot of the shared state at the moment of the effect.               *)
(***************************************************************************)
EXTENDS Integers, Sequences, FiniteSets, TLC

VARIABLES
    flags,       \* SharedState.flags: the set of flag bits that are set
    read_buf,    \* SharedState.read_buf : Option<BytesMut>
    write_buf,   \* SharedState.write_buf : Option<BytesMut>
    wire,        \* bytes the transport accepted from poll_write, in order
    nsent,       \* number of bytes deposited into write_buf so far
    wtask,       \* WriteTask.st (IoWriteState) and whether the future is done
    halfClosed,  \* the transport's write side was shut down (half-close)
    ioClosed,    \* poll_close was called on the transport
    closes,      \* the close(err) calls made on the chain, in order
    term,        \* the terminal condition recorded in the shared state and
                 \* the number of terminal notifications sent for it
    wpolls,      \* parity of the number of polls of WriteTask
    chain,       \* the filter chain: "base", or the TLS client filter over
                 \* Base with its session still handshaking ("tls_hs") or
                 \* past the handshake ("tls")
    tls_read_buf,\* IoInner.read_buf of the TLS filter : Option<BytesMut>
    tls_taken,   \* bytes the handshake took out of IoInner.read_buf
    tls_sess,    \* raw bytes of an incomplete record held by the session
    tls_write_buf, \* IoInner.write_buf of the TLS filter : Option<BytesMut>
    tls_wsess,   \* plaintext the session accepted and has not yet emitted
    wfail,       \* how a TlsClientFilter::release_write_buf call failed:
                 \* "None", "Err" (it returned Err) or "Panic"
    alpn,        \* session.alpn_protocol(): the negotiated ALPN protocol
                 \* name : Option<&[u8]>
    queried,     \* the last call of TlsClientFilter::query, [id, ret]
    cr,          \* the TlsClientFilter::create future: where it stands (pc),
                 \* the last complete_io result, wants_read, and what it
                 \* returned
    nrecv,       \* number of bytes the transport delivered to ReadTask
    delivered,   \* bytes the dispatcher took out of read_buf, in order
    rtask,       \* whether the ReadTask future is done
    rloop,        \* the read pump's inner loop over a pool of any read
                 \* watermarks: the watermarks, the buffer and where the
                 \* loop stands
    plog         \* effects of the handler that ran last, in order

vars == <<flags, read_buf, write_buf, wire, nsent, wtask, halfClosed,
          ioClosed, closes, term, wpolls, chain, tls_read_buf, tls_taken,
          tls_sess, tls_write_buf, tls_wsess, wfail, alpn, queried, cr,
          nrecv, delivered, rtask, rloop, plog>>

\* the variables of the read path
readVars ==
    <<chain, tls_read_buf, tls_taken, tls_sess, nrecv, delivered, rtask>>

\* the variables of the TLS filter's write side
tlsWriteVars == <<tls_write_buf, tls_wsess, wfail>>

\* the variables of the TLS session's metadata
sessVars == <<alpn, queried>>

\* the variables of the read loop over any pool
roomVars == <<rloop>>

----------------------------------------------------------------------------
(* Bounds of the model *)

\* total number of bytes the dispatcher deposits into write_buf
MaxBytes == 4
\* the pool's write high watermark (a pool parameter)
WriteHw == 1
\* number of consecutive Timeout statuses the chain reports inside one poll
MaxRepoll == 1
\* number of non-empty drain reads the transport has ready inside one poll
MaxDrainReads == 2
\* total number of bytes the transport delivers to ReadTask
MaxRecv == 4
\* largest read watermark of the pools the read loop is run over
MaxWatermark == 3
\* largest spare capacity of a buffer that get_read_buf hands out
MaxSpare == 4
\* the pool's read high and low watermarks (pool parameters)
ReadHw == 2
ReadLw == 1
\* number of raw bytes of one TLS record; a record carries one plaintext byte
RecordLen == 2
\* longest ALPN protocol name, in bytes
MaxAlpnLen == 3
\* number of raw bytes the session needs from the peer for the handshake
HandshakeLen == 2

(* Program constants *)

\* size of the stack buffer used to drain peer input
DrainBufLen == 512
\* drain limit: the task stops when count exceeds it
DrainLimit == 4096
\* width of the drain counter (u16)
CountBits == 16

\* disconnect timeouts the chain can hand out (Millis)
Millis == {1, 2}
\* sizes of the drain reads the transport returns (at most DrainBufLen)
DrainSizes == {DrainBufLen \div 2, DrainBufLen}

----------------------------------------------------------------------------
(* Option<T> as a sequence of length at most one *)

None == <<>>
Some(x) == <<x>>
IsSome(o) == o # <<>>
Unwrap(o) == o[1]
\* the bytes of an optional buffer (none when absent)
Content(o) == IF o = <<>> THEN <<>> ELSE o[1]

\* <<a, a+1, ..., b>>
Iota(a, b) == [i \in 1..(b - a + 1) |-> a + i - 1]

RECURSIVE Pow2(_)
Pow2(n) == IF n = 0 THEN 1 ELSE 2 * Pow2(n - 1)

(* Flags *)
RD_READY == "RD_READY"
RD_BUF_FULL == "RD_BUF_FULL"
WR_WAIT == "WR_WAIT"
WR_BACKPRESSURE == "WR_BACKPRESSURE"
IO_FILTERS == "IO_FILTERS"

----------------------------------------------------------------------------
(* The state as one record, and the log of effects *)

World ==
    [flags |-> flags, read_buf |-> read_buf, write_buf |-> write_buf,
     wire |-> wire, nsent |-> nsent, wtask |-> wtask,
     halfClosed |-> halfClosed, ioClosed |-> ioClosed, closes |-> closes,
     term |-> term,
     wpolls |-> wpolls, chain |-> chain, tls_read_buf |-> tls_read_buf,
     tls_taken |-> tls_taken, tls_sess |-> tls_sess,
     tls_write_buf |-> tls_write_buf, tls_wsess |-> tls_wsess,
     wfail |-> wfail, cr |-> cr, nrecv |-> nrecv, delivered |-> delivered,
     rtask |-> rtask, plog |-> <<>>]

Commit(w) ==
    /\ flags' = w.flags
    /\ read_buf' = w.read_buf
    /\ write_buf' = w.write_buf
    /\ wire' = w.wire
    /\ nsent' = w.nsent
    /\ wtask' = w.wtask
    /\ halfClosed' = w.halfClosed
    /\ ioClosed' = w.ioClosed
    /\ closes' = w.closes
    /\ term' = w.term
    /\ wpolls' = w.wpolls
    /\ chain' = w.chain
    /\ tls_read_buf' = w.tls_read_buf
    /\ tls_taken' = w.tls_taken
    /\ tls_sess' = w.tls_sess
    /\ tls_write_buf' = w.tls_write_buf
    /\ tls_wsess' = w.tls_wsess
    /\ wfail' = w.wfail
    /\ cr' = w.cr
    /\ nrecv' = w.nrecv
    /\ delivered' = w.delivered
    /\ rtask' = w.rtask
    /\ plog' = w.plog
    /\ UNCHANGED sessVars
    /\ UNCHANGED roomVars

\* record effect `name`, with its numeric argument n and its buffer argument
\* arg, and with the shared state and the TLS filter's read_buf as they are
\* when the effect happens
LogA(w, name, n, arg) ==
    [w EXCEPT !.plog = Append(@, [ev |-> name, n |-> n, arg |-> arg,
                                  flags |-> w.flags,
                                  wbuf |-> w.write_buf, rbuf |-> w.read_buf,
                                  tbuf |-> w.tls_read_buf,
                                  half |-> w.halfClosed,
                                  nclose |-> Len(w.closes)])]

LogN(w, name, n) == LogA(w, name, n, <<>>)

Log(w, name) == LogN(w, name, 0)

\* record an effect that repeats in a loop once per run of repetitions
LogRun(w, name) ==
    IF w.plog # <<>> /\ w.plog[Len(w.plog)].ev = name THEN w ELSE Log(w, name)

\* self.0.set_flags(flags)
set_flags(w, fl) == [Log(w, "set_flags") EXCEPT !.flags = fl]

\* self.0 .0.dispatch_task.wake()
wake_dispatch(w) == Log(w, "wake_dispatch")

\* pool.release_write_buf(buf) / pool.release_read_buf(buf): the buffer goes
\* back to the memory pool and is gone from the connection
pool_release(w) == Log(w, "pool_release")

\* SharedState::shutdown_filters, the filter chain's shutdown sweep
shutdown_filters(w) == Log(w, "shutdown_filters")

\* the shared state of a connection no terminal condition has reached
NotStopped == [stopped |-> FALSE, error |-> "None", notified |-> 0]

\* variant: every closed(err) records its error and notifies again
closed_Overwrite(w, err) ==
    [w EXCEPT !.term = [stopped |-> TRUE, error |-> err,
                        notified |-> @.notified + 1]]

\* Filter::closed(err) of the Base filter: the first terminal condition is
\* recorded and notified, a later one changes nothing
closed(w, err) ==
    IF w.term.stopped
    THEN w
    ELSE [w EXCEPT !.term = [stopped |-> TRUE, error |-> err, notified |-> 1]]

\* WriteContext::close / ReadContext::close: filter().closed(err).  `by` is
\* the task that calls, `err` the argument, `why` the place of the call
close(w, by, err, why) ==
    closed([Log(w, "close") EXCEPT
               !.closes = Append(@, [by |-> by, err |-> err, why |-> why,
                                     st |-> w.wtask.st])],
           err)

\* variant: the sweep runs whether or not a filter asked for it
SweepFilters_Always(w, fl) == shutdown_filters(w)

\* if flags.contains(Flags::IO_FILTERS) { self.0 .0.shutdown_filters() }
SweepFilters(w, fl) == IF IO_FILTERS \in fl THEN shutdown_filters(w) ELSE w

----------------------------------------------------------------------------
(* WriteContext (tasks.rs) *)

\* write_params_high() << 1
BackpressureLimit == 2 * WriteHw

\* mutant: back-pressure is also turned off at exactly 2 x high watermark
BackpressureOff_Le(fl, buf) ==
    WR_BACKPRESSURE \in fl /\ Len(buf) <= BackpressureLimit

\* mutant: the length is compared with the high watermark, not twice it
BackpressureOff_Hw(fl, buf) ==
    WR_BACKPRESSURE \in fl /\ Len(buf) < WriteHw

\* variant: any re-deposit turns back-pressure off
BackpressureOff_Always(fl, buf) == WR_BACKPRESSURE \in fl

\* the condition of line 113-114 that turns back-pressure off
BackpressureOff(fl, buf) ==
    WR_BACKPRESSURE \in fl /\ Len(buf) < BackpressureLimit

\* variant: a partial flush ends the dispatcher's drain wait as well
RemoveBackpressure_AndWait(fl) == fl \ {WR_WAIT, WR_BACKPRESSURE}

\* flags.remove(Flags::WR_BACKPRESSURE) for a buffer that is not empty
RemoveBackpressure(fl) == fl \ {WR_BACKPRESSURE}

\* mutant: the dispatcher is woken before the flag word is stored
ClearAndWake_WakeFirst(w, fl) == set_flags(wake_dispatch(w), fl)

\* flags.remove(..); self.0.set_flags(flags); dispatch_task.wake()
ClearAndWake(w, fl) == wake_dispatch(set_flags(w, fl))

release_write_buf(w, buf) ==
    LET fl0 == w.flags
        w0 == Log(w, "release_write_buf")
        emptyBranch ==
            IF fl0 \cap {WR_WAIT, WR_BACKPRESSURE} # {}
            THEN ClearAndWake(pool_release(w0),
                              fl0 \ {WR_WAIT, WR_BACKPRESSURE})
            ELSE pool_release(w0)
        fullBranch ==
            LET w1 == IF BackpressureOff(fl0, buf)
                      THEN ClearAndWake(w0, RemoveBackpressure(fl0))
                      ELSE w0
            IN [Log(w1, "set_write_buf") EXCEPT !.write_buf = Some(buf)]
        w2 == IF buf = <<>> THEN emptyBranch ELSE fullBranch
        \* `flags` is the local copy: IO_FILTERS is never removed from it
        w3 == SweepFilters(w2, fl0)
    IN Log(w3, "release_write_buf_ret")

----------------------------------------------------------------------------
(* flush_io (asyncstd.rs) *)

\* answers of poll_write for a slice of k bytes
PollWriteResults(k) ==
    {[k |-> "Pending", n |-> 0], [k |-> "Err", n |-> 0]}
        \cup {[k |-> "Ok", n |-> i] : i \in 0..k}

\* the transport accepts the bytes `bs`
TransportWrite(w, bs) == [LogRun(w, "write") EXCEPT !.wire = @ \o bs]

\* mutant: the slice handed to poll_write always starts at the buffer's start
Unwritten_NoOffset(buf, written) == buf

\* buf[written..]
Unwritten(buf, written) == SubSeq(buf, written + 1, Len(buf))

\* variant: a partial flush forgets what it did not write
Advance_Clear(buf, written) == <<>>

\* buf.advance(written)
Advance(buf, written) == SubSeq(buf, written + 1, Len(buf))

\* variant: a write of 0 bytes puts the unwritten bytes back
WriteZero_Redeposit(w, buf, written) ==
    [w |-> close([w EXCEPT !.write_buf = Some(Advance(buf, written))],
                 "write", "WriteZero", "write_zero"),
     written |-> written, ret |-> "false"]

\* variant: flush_io leaves the close to its caller
WriteZero_NoClose(w, buf, written) ==
    [w |-> pool_release(w), written |-> written, ret |-> "false"]

\* lines 496-503: poll_write took 0 bytes; the buffer goes to the pool, the
\* chain is closed with WriteZero and flush_io returns Ready(false)
WriteZero(w, buf, written) ==
    [w |-> close(pool_release(w), "write", "WriteZero", "write_zero"),
     written |-> written, ret |-> "false"]

\* the `while written < len` loop: the set of ways it can end, each with
\* the state, the count written and whether flush_io returned from inside
RECURSIVE WriteLoop(_, _, _)
WriteLoop(w, buf, written) ==
    IF written < Len(buf)
    THEN UNION {
           CASE r.k = "Pending" ->
                  {[w |-> Log(w, "write_pending"), written |-> written,
                    ret |-> "none"]}
             [] r.k = "Err" ->
                  {[w |-> close(pool_release(w), "write", "Io", "write_err"),
                    written |-> written, ret |-> "false"]}
             [] r.n = 0 -> {WriteZero(w, buf, written)}
             [] OTHER ->
                  WriteLoop(
                      TransportWrite(
                          w, SubSeq(Unwritten(buf, written), 1, r.n)),
                      buf, written + r.n)
           : r \in PollWriteResults(Len(buf) - written) }
    ELSE {[w |-> w, written |-> written, ret |-> "none"]}

\* answers of poll_flush
PollFlushResults == {"Ok", "Pending", "Err"}

\* lines 518-544: remove written data, then poll_flush
FlushFinish(w, buf, written) ==
    LET result == IF written = Len(buf) THEN "true" ELSE "Pending"
        w0 == IF written = Len(buf)
              THEN release_write_buf(w, <<>>)
              ELSE release_write_buf(w, Advance(buf, written))
        \* Pin::new(&mut *io).poll_flush(cx)
        w1 == Log(w0, "poll_flush")
    IN { CASE f = "Ok" -> [w |-> w1, ret |-> result]
           [] f = "Pending" -> [w |-> w1, ret |-> "Pending"]
           [] OTHER -> [w |-> close(w1, "write", "Io", "flush_err"),
                        ret |-> "false"]
         : f \in PollFlushResults }

\* the set of outcomes [w, ret], ret being "true", "false" or "Pending"
flush_io(w) ==
    IF ~IsSome(w.write_buf)
    THEN {[w |-> w, ret |-> "true"]}
    ELSE LET buf == Unwrap(w.write_buf)
             \* state.get_write_buf(): write_buf.take()
             w1 == [w EXCEPT !.write_buf = None]
         IN IF Len(buf) # 0
            THEN UNION {
                   IF l.ret = "false"
                   THEN {[w |-> l.w, ret |-> "false"]}
                   ELSE FlushFinish(l.w, buf, l.written)
                   : l \in WriteLoop(w1, buf, 0) }
            ELSE {[w |-> w1, ret |-> "true"]}

----------------------------------------------------------------------------
(* WriteTask (asyncstd.rs) *)

\* ntex_util::time::sleep(time): a timer that has not yet elapsed
sleep(t) == [time |-> t, elapsed |-> FALSE]

\* delay.poll_elapsed(cx).is_ready()
poll_elapsed(delay) == delay.elapsed

\* WriteTask::new: st = IoWriteState::Processing(None)
WriteTaskNew == [st |-> "Processing", delay |-> None, sub |-> "None", count |-> 0]

\* the future returned Poll::Ready(()) and is dropped
Done(w) == [w EXCEPT !.wtask.st = "Done"]

\* Pin::new(&mut this.io.0).poll_close(cx)
poll_close(w) == [Log(w, "poll_close") EXCEPT !.ioClosed = TRUE]

\* this.io.0.shutdown(std::net::Shutdown::Write) returning Ok
shutdown_write(w) == [Log(w, "shutdown_write") EXCEPT !.halfClosed = TRUE]

\* answers of state.poll_ready(cx) (the chain's poll_write_ready); at most
\* `fuel` more Timeout statuses are reported inside this poll
WriteStatuses(fuel) ==
    {[k |-> "Pending", t |-> 0], [k |-> "Ready", t |-> 0],
     [k |-> "Terminate", t |-> 0]}
        \cup {[k |-> "Shutdown", t |-> d] : d \in Millis}
        \cup (IF fuel > 0 THEN {[k |-> "Timeout", t |-> d] : d \in Millis}
              ELSE {})

\* variant: the counter is four bits narrower
AddCount_Narrow(count, n) == (count + n) % Pow2(CountBits - 4)

\* *count += n as u16
AddCount(count, n) == (count + n) % Pow2(CountBits)

\* answers of poll_read on the 512 byte drain buffer; at most `fuel` more
\* non-empty reads are ready inside this poll
DrainResults(fuel) ==
    {[k |-> "Pending", n |-> 0], [k |-> "Err", n |-> 0], [k |-> "Ok", n |-> 0]}
        \cup (IF fuel > 0 THEN {[k |-> "Ok", n |-> i] : i \in DrainSizes}
              ELSE {})

\* variant: the drain stops as soon as the limit is reached
TooMuch_Ge(count) == count >= DrainLimit

\* *count > 4096
TooMuch(count) == count > DrainLimit

\* mutant: the elapsed disconnect timeout is ignored
DelayCheck_Ignored(w) == {w}

\* lines 460-467: the disconnect timeout at the end of the Shutdown loop
DelayCheck(w) ==
    IF ~poll_elapsed(Unwrap(w.wtask.delay))
    THEN {w}
    ELSE {Done(poll_close(close(w, "write", "None", "delay")))}

\* Shutdown::Stopping(count): read until 0 or err.  [w, ret]: ret is "done"
\* when the task returned from inside the loop, "break" on Pending
RECURSIVE DrainLoop(_, _)
DrainLoop(w, fuel) ==
    UNION {
      CASE r.k = "Err" ->
             {[w |-> Done(close(LogRun(w, "read"), "write", "Io", "read_err")), ret |-> "done"]}
        [] r.k = "Pending" ->
             {[w |-> LogRun(w, "read"), ret |-> "break"]}
        [] r.n = 0 ->
             {[w |-> Done(close(LogRun(w, "read"), "write", "None", "eof")),
               ret |-> "done"]}
        [] OTHER ->
             LET w1 == [LogRun(w, "read") EXCEPT
                           !.wtask.count = AddCount(@, r.n)]
             IN IF TooMuch(w1.wtask.count)
                THEN {[w |-> Done(close(w1, "write", "None", "too_much")), ret |-> "done"]}
                ELSE DrainLoop(w1, fuel - 1)
      : r \in DrainResults(fuel) }

\* mutant: the half-close does not wait for a pending flush
AfterShutdownFlush_Early(ret) ==
    CASE ret = "false" -> "close"
      [] OTHER -> "half_close"

\* Shutdown::None: what the task does next for each answer of flush_io
AfterShutdownFlush(ret) ==
    CASE ret = "true" -> "half_close"
      [] ret = "false" -> "close"
      [] OTHER -> "delay"

\* IoWriteState::Shutdown(delay, st): the loop of lines 403-468
RECURSIVE ShutdownPoll(_)
ShutdownPoll(w) ==
    IF w.wtask.sub = "None"
    THEN UNION {
           CASE AfterShutdownFlush(f.ret) = "half_close" ->
                  UNION {
                    IF h = "Err"
                    THEN {Done(close(Log(f.w, "shutdown_write_err"),
                                     "write", "None", "half_close_err"))}
                    ELSE ShutdownPoll(
                             [shutdown_write(f.w) EXCEPT
                                 !.wtask.sub = "Stopping", !.wtask.count = 0])
                    : h \in {"Ok", "Err"} }
             [] AfterShutdownFlush(f.ret) = "close" ->
                  {Done(close(f.w, "write", "None", "flush_failed"))}
             [] OTHER -> DelayCheck(f.w)
           : f \in flush_io(w) }
    ELSE UNION {
           IF d.ret = "done" THEN {d.w} ELSE DelayCheck(d.w)
           : d \in DrainLoop(w, MaxDrainReads) }

\* variant: every Timeout status starts the deadline afresh
ArmDelay_Rearm(delay, t) == Some(sleep(t))

\* the Timeout arm: arm the disconnect deadline unless already armed
ArmDelay(delay, t) == IF delay = None THEN Some(sleep(t)) ELSE delay

\* variant: the Shutdown arm always starts a timer of its own
ShutdownDelay_Fresh(delay, t) == Some(sleep(t))

\* the Shutdown arm: delay.take() or sleep(time)
ShutdownDelay(delay, t) == IF IsSome(delay) THEN delay ELSE Some(sleep(t))

\* variant: the remaining write buffer is written out before the close
Terminate_Flush(w) ==
    Done(close(poll_close(TransportWrite(Log(w, "terminate"),
                                         Content(w.write_buf))),
               "write", "None", "terminate"))

\* the Terminate arm (lines 390-396)
Terminate(w) ==
    Done(close(poll_close(Log(w, "terminate")), "write", "None", "terminate"))

\* variant: the write buffer is flushed once more before the timeout closes
TimedOut_Flush(w) ==
    Done(close(TransportWrite(Log(w, "ready"), Content(w.write_buf)),
               "write", "TimedOut", "timeout"))

\* the Ready arm with the disconnect deadline elapsed (lines 355-362)
TimedOut(w) == Done(close(Log(w, "ready"), "write", "TimedOut", "timeout"))

\* WriteTask::poll: the set of states one call can end in
RECURSIVE WriteTask_poll(_, _)
WriteTask_poll(w, fuel) ==
    IF w.wtask.st = "Processing"
    THEN UNION {
           CASE s.k = "Ready" ->
                  IF IsSome(w.wtask.delay)
                        /\ poll_elapsed(Unwrap(w.wtask.delay))
                  THEN {TimedOut(w)}
                  ELSE {IF f.ret = "false" THEN Done(f.w) ELSE f.w
                        : f \in flush_io(Log(w, "ready"))}
             [] s.k = "Timeout" ->
                  WriteTask_poll(
                      [w EXCEPT
                          !.wtask.delay = ArmDelay(@, s.t)],
                      fuel - 1)
             [] s.k = "Shutdown" ->
                  LET t == [st |-> "Shutdown",
                            delay |-> ShutdownDelay(w.wtask.delay, s.t),
                            sub |-> "None", count |-> 0]
                  IN WriteTask_poll(
                         [LogA(w, "shutdown", s.t, <<w.wtask.delay, t>>)
                             EXCEPT !.wtask = t],
                         fuel)
             [] s.k = "Terminate" -> {Terminate(w)}
             [] OTHER -> {w}
           : s \in WriteStatuses(fuel) }
    ELSE ShutdownPoll(w)

----------------------------------------------------------------------------
(* The dispatcher side of the write path (Io::send and the drain wait) *)

\* Io::send: the encoded bytes are appended to write_buf; back-pressure is
\* turned on when the buffer has grown past 2 x the write high watermark
IoSend(w, k) ==
    LET buf == Content(w.write_buf) \o Iota(w.nsent + 1, w.nsent + k)
    IN [w EXCEPT !.write_buf = Some(buf),
                 !.nsent = @ + k,
                 !.flags = IF Len(buf) > BackpressureLimit
                           THEN @ \cup {WR_BACKPRESSURE} ELSE @]

----------------------------------------------------------------------------
(* The write side of the TLS client filter (client.rs) *)

\* the TLS records the session emits for the plaintext bytes ps: one record
\* of RecordLen raw bytes per byte, the plaintext byte last
TlsRecords(ps) ==
    [i \in 1..(Len(ps) * RecordLen) |->
        IF i % RecordLen = 0 THEN ps[i \div RecordLen] ELSE 0]

\* the plaintext carried by the whole records of the raw bytes bs
TlsPlain(bs) == [i \in 1..(Len(bs) \div RecordLen) |-> bs[i * RecordLen]]

\* Wrapper::write (lines 211-222): the inner filter's write buffer is taken,
\* extended by src and released to the inner filter again
WrapperWrite(w, src) ==
    [Log(w, "inner_release_write_buf") EXCEPT
        !.write_buf = Some(Content(@) \o src)]

\* answers of session.writer().write(&src) at line 174, which is called
\* only for a src that is not empty: it fails, or takes n bytes
WriterWriteResults(src) ==
    IF src = <<>> THEN {[k |-> "Ok", n |-> 0]}
    ELSE {[k |-> "Err", n |-> 0]} \cup {[k |-> "Ok", n |-> i] : i \in 0..Len(src)}

\* answers of session.write_tls(&mut io) at line 178 for a session holding
\* the plaintext sess: it fails, or emits the records of n bytes
WriteTlsResults(sess) ==
    {[k |-> "Err", n |-> 0]} \cup {[k |-> "Ok", n |-> i] : i \in 0..Len(sess)}

\* the loop of lines 172-182: the set of [w, src, ok], src what the session
\* did not take, ok FALSE when the loop left with an error
RECURSIVE TlsWriteLoop(_, _)
TlsWriteLoop(w, src) ==
    UNION {
      IF a.k = "Err"
      THEN {[w |-> w, src |-> src, ok |-> FALSE]}
      ELSE LET w1 == [w EXCEPT !.tls_wsess = @ \o SubSeq(src, 1, a.n)]
               src1 == SubSeq(src, a.n + 1, Len(src))
           IN UNION {
                CASE t.k = "Err" -> {[w |-> w1, src |-> src1, ok |-> FALSE]}
                  [] t.n = 0 -> {[w |-> w1, src |-> src1, ok |-> TRUE]}
                  [] OTHER ->
                       TlsWriteLoop(
                           WrapperWrite(
                               [w1 EXCEPT !.tls_wsess =
                                              SubSeq(@, t.n + 1, Len(@))],
                               TlsRecords(SubSeq(w1.tls_wsess, 1, t.n))),
                           src1)
                : t \in WriteTlsResults(w1.tls_wsess) }
      : a \in WriterWriteResults(src) }

\* lines 184-186 with src not empty: self.inner.borrow_mut() is called while
\* the RefMut `inner` taken at line 169 is alive, and the RefCell panics
StoreLeftover(w, src) == LogA([w EXCEPT !.wfail = "Panic"], "panic", 0, src)

\* TlsClientFilter::release_write_buf (lines 167-190): the states the call
\* can end in
tls_release_write_buf(w, src) ==
    {IF ~l.ok
     THEN LogA([l.w EXCEPT !.wfail = "Err"],
               "tls_release_write_buf_err", 0, src)
     ELSE IF l.src # <<>> THEN StoreLeftover(l.w, l.src)
     ELSE LogA(l.w, "tls_release_write_buf_ok", 0, src)
     : l \in TlsWriteLoop(w, src)}

\* TlsClientFilter::get_write_buf (lines 89-97): [w, buf]
tls_get_write_buf(w) ==
    [w |-> [w EXCEPT !.tls_write_buf = None],
     buf |-> IF IsSome(w.tls_write_buf) /\ Unwrap(w.tls_write_buf) # <<>>
             THEN w.tls_write_buf ELSE None]

\* Io::send over the TLS filter: the filter's write buffer is taken, the k
\* encoded bytes are appended and the buffer is released to the filter
TlsIoSend(w, k) ==
    LET g == tls_get_write_buf(w)
    IN tls_release_write_buf(
           [g.w EXCEPT !.nsent = @ + k],
           Content(g.buf) \o Iota(w.nsent + 1, w.nsent + k))

----------------------------------------------------------------------------
(* TlsClientFilter::query (client.rs) *)

\* const H2: &[u8] = b"h2"
H2 == <<"h", "2">>

\* the bytes protocol names are made of
AlpnBytes == {"h", "2", "c"}

\* the protocol names of 1 to MaxAlpnLen bytes
AlpnNames ==
    UNION {[1..n -> AlpnBytes] : n \in 1..MaxAlpnLen}

\* the type ids query is called with
QueryIds == {"HttpProtocol", "PeerAddr"}

\* protos.windows(n): the overlapping slices of n bytes, in order
windows(protos, n) ==
    [i \in 1..(IF Len(protos) >= n THEN Len(protos) - n + 1 ELSE 0) |->
        SubSeq(protos, i, i + n - 1)]

\* lines 31-36: alpn_protocol().map(|protos| protos.windows(2).any(|w| w ==
\* H2)).unwrap_or(false)
IsH2(a) ==
    IF IsSome(a)
    THEN \E i \in DOMAIN windows(Unwrap(a), 2) : windows(Unwrap(a), 2)[i] = H2
    ELSE FALSE

\* the inner filter's query: Base knows none of the ids above
inner_query(id) == None

\* TlsClientFilter::query (lines 27-47)
query(a, id) ==
    IF id = "HttpProtocol"
    THEN Some(IF IsH2(a) THEN "Http2" ELSE "Http1")
    ELSE inner_query(id)

----------------------------------------------------------------------------
(* Read buffers: BytesMut with its spare capacity, [d: bytes, rem: spare] *)

\* buf.remaining_mut()
remaining_mut(b) == b.rem

\* buf.reserve(additional): room for at least `additional` more bytes
reserve(b, additional) ==
    [b EXCEPT !.rem = IF @ < additional THEN additional ELSE @]

\* the transport stores the bytes bs into the spare room: buf.advance_mut(n)
advance_mut(b, bs) == [d |-> b.d \o bs, rem |-> b.rem - Len(bs)]

\* buf.split_to(k): the first k bytes leave the buffer
split_to(b, k) == [b EXCEPT !.d = SubSeq(@, k + 1, Len(@))]

\* memory_pool().get_read_buf(): an empty buffer with low-watermark capacity
pool_get_read_buf == [d |-> <<>>, rem |-> ReadLw]

\* the bytes of an optional read buffer
RContent(o) == IF o = <<>> THEN <<>> ELSE o[1].d

----------------------------------------------------------------------------
(* The filter chain under ReadContext *)

\* filter().get_read_buf(): [w, buf], buf the Option the chain hands out.
\* Base takes SharedState.read_buf; the TLS filter takes its own read_buf
\* and hands it out only when it is not empty
filter_get_read_buf(w) ==
    IF w.chain = "base"
    THEN [w |-> [w EXCEPT !.read_buf = None], buf |-> w.read_buf]
    ELSE [w |-> [w EXCEPT !.tls_read_buf = None],
          buf |-> IF IsSome(w.tls_read_buf) /\ Unwrap(w.tls_read_buf).d # <<>>
                  THEN w.tls_read_buf ELSE None]

\* client.rs 135-138: make sure we've got room
TlsMakeRoom(buf) ==
    IF remaining_mut(buf) < ReadLw
    THEN reserve(buf, ReadHw - remaining_mut(buf))
    ELSE buf

\* answers of session.read_tls on a source of len bytes (it fails, or takes
\* n bytes) followed by session.process_new_packets (it fails or not)
TlsReadResults(len) ==
    {[k |-> "ReadErr", n |-> 0]}
        \cup {[k |-> kk, n |-> i] :
                 kk \in {"Ok", "ProcessErr"},
                 i \in (IF len = 0 THEN {0} ELSE 1..len)}

\* variant: every pass of the loop that decoded something counts as one
AddNewBytes_One(new_bytes, v) == new_bytes + 1

\* client.rs 154: new_bytes += v
AddNewBytes(new_bytes, v) == new_bytes + v

\* the loop of client.rs 133-158 over the session holding the raw bytes
\* sess: the set of [sess, src, buf, n, ok], n the plaintext bytes appended
\* to buf, ok FALSE when the loop left with an error
RECURSIVE TlsLoop(_, _, _, _)
TlsLoop(sess, src, buf, new_bytes) ==
    LET b1 == TlsMakeRoom(buf)
    IN UNION {
         IF r.k = "ReadErr"
         THEN {[sess |-> sess, src |-> src, buf |-> b1, n |-> new_bytes,
                ok |-> FALSE]}
         ELSE LET raw == sess \o SubSeq(src.d, 1, r.n)
                  src1 == split_to(src, r.n)
                  nrec == Len(raw) \div RecordLen
                  plain == [i \in 1..nrec |-> raw[i * RecordLen]]
                  sess1 == SubSeq(raw, nrec * RecordLen + 1, Len(raw))
              IN CASE r.k = "ProcessErr" ->
                        {[sess |-> raw, src |-> src1, buf |-> b1,
                          n |-> new_bytes, ok |-> FALSE]}
                   [] nrec > 0 ->
                        TlsLoop(sess1, src1,
                                advance_mut(reserve(b1, nrec), plain),
                                AddNewBytes(new_bytes, nrec))
                   [] OTHER ->
                        {[sess |-> sess1, src |-> src1, buf |-> b1,
                          n |-> new_bytes, ok |-> TRUE]}
         : r \in TlsReadResults(Len(src.d)) }

\* variant: what the session did not take is dropped with src
LeftoverSrc_Dropped(slot, ok, src) == slot

\* client.rs 160-162: src is kept in the filter's read_buf when the loop
\* ended without an error and left bytes in it
LeftoverSrc(slot, ok, src) == IF ok /\ src.d # <<>> THEN Some(src) ELSE slot

\* TlsClientFilter::release_read_buf once the handshake is over (client.rs
\* 112-164): the inner filter hands src back, the session decodes it into
\* dst, and what it did not take stays in the filter's read_buf
TlsDecode(w, src, dst) ==
    {[w |-> LogA([w EXCEPT
                     !.tls_sess = l.sess,
                     !.tls_read_buf = LeftoverSrc(@, l.ok, l.src)],
                 IF l.ok THEN "tls_release_read_buf_ok"
                 ELSE "tls_release_read_buf_err",
                 l.n, <<src.d, w.tls_sess, l.sess>>),
      dst |-> Some(l.buf), ok |-> l.ok, n |-> l.n]
     : l \in TlsLoop(w.tls_sess, src,
                     IF IsSome(dst) THEN Unwrap(dst) ELSE pool_get_read_buf,
                     0)}

\* variant: during the handshake src is handed on as the decoded buffer
HandshakeStore_Forward(w, src, dst) ==
    [w |-> LogA(w, "tls_release_read_buf_ok", 1,
                <<src.d, w.tls_sess, w.tls_sess>>),
     dst |-> Some(src), ok |-> TRUE, n |-> 1]

\* client.rs 107-109: while session.is_handshaking() src is kept in the
\* filter's read_buf, dst is left alone and the answer is Ok(1)
HandshakeStore(w, src, dst) ==
    [w |-> LogA([w EXCEPT !.tls_read_buf = Some(src)],
                "tls_release_read_buf_ok", 1,
                <<src.d, w.tls_sess, w.tls_sess>>),
     dst |-> dst, ok |-> TRUE, n |-> 1]

\* filter.release_read_buf(src, &mut dst, nbytes): the set of [w, dst, ok, n].
\* Base stores src as the decoded buffer and reports nbytes; the TLS filter,
\* while session.is_handshaking(), keeps src in its own read_buf, leaves dst
\* alone and reports Ok(1)
filter_release_read_buf(w, src, dst, nbytes) ==
    CASE w.chain = "base" ->
           {[w |-> w, dst |-> Some(src), ok |-> TRUE, n |-> nbytes]}
      [] w.chain = "tls_hs" -> {HandshakeStore(w, src, dst)}
      [] OTHER -> TlsDecode(w, src, dst)

\* filter.want_shutdown(Some(err))
want_shutdown(w) == Log(w, "want_shutdown")

----------------------------------------------------------------------------
(* ReadContext (tasks.rs) *)

\* variant: the flag word is replaced by the inserted flags
insert_flags_Replace(w, fl) == [Log(w, "insert_flags") EXCEPT !.flags = fl]

\* self.0 .0.insert_flags(fl)
insert_flags(w, fl) == [Log(w, "insert_flags") EXCEPT !.flags = @ \cup fl]

\* ReadContext::get_read_buf: [w, buf]
get_read_buf(w) ==
    LET g == filter_get_read_buf(w)
    IN [w |-> g.w,
        buf |-> IF IsSome(g.buf) THEN Unwrap(g.buf) ELSE pool_get_read_buf]

\* mutant: back-pressure already at the high watermark
ReadyFlags_Ge(len) ==
    IF len >= ReadHw THEN {RD_READY, RD_BUF_FULL} ELSE {RD_READY}

\* mutant: a full buffer sets RD_BUF_FULL in place of RD_READY
ReadyFlags_FullOnly(len) ==
    IF len > ReadHw THEN {RD_BUF_FULL} ELSE {RD_READY}

\* the flags inserted for a decoded buffer of length len (lines 45-54)
ReadyFlags(len) ==
    IF len > ReadHw THEN {RD_READY, RD_BUF_FULL} ELSE {RD_READY}

\* variant: the flags are set and the dispatcher woken for every count
StoreDecoded_Always(w, dst, nbytes) ==
    [LogN(wake_dispatch(insert_flags(w, ReadyFlags(Len(dst.d)))),
          "set_read_buf", nbytes)
        EXCEPT !.read_buf = Some(dst)]

\* lines 43-57: the chain left a decoded buffer dst
StoreDecoded(w, dst, nbytes) ==
    LET w1 == IF nbytes > 0
              THEN wake_dispatch(insert_flags(w, ReadyFlags(Len(dst.d))))
              ELSE w
    IN [LogN(w1, "set_read_buf", nbytes) EXCEPT !.read_buf = Some(dst)]

\* lines 58-61: no decoded buffer, but the chain consumed bytes
NoDecoded(w, nbytes) ==
    IF nbytes > 0 THEN insert_flags(wake_dispatch(w), {RD_READY}) ELSE w

\* variant: a failed chain is reported to the dispatcher but not shut down
ChainFailed_NoShutdown(w) == insert_flags(wake_dispatch(w), {RD_READY})

\* lines 63-67: the chain failed
ChainFailed(w) ==
    want_shutdown(insert_flags(wake_dispatch(w), {RD_READY}))

\* what release_read_buf does with the answer r of the chain
AfterChain(r) ==
    LET nbytes == IF r.ok THEN r.n ELSE 0
        w2 == IF IsSome(r.dst)
              THEN StoreDecoded(r.w, Unwrap(r.dst), nbytes)
              ELSE NoDecoded(r.w, nbytes)
    IN IF r.ok THEN w2 ELSE ChainFailed(w2)

\* ReadContext::release_read_buf: the set of states the call can end in
release_read_buf(w, buf, nbytes0) ==
    LET w0 == LogN(w, "release_read_buf", nbytes0)
        \* self.0 .0.read_buf.take()
        w1 == [w0 EXCEPT !.read_buf = None]
        ws == IF buf.d = <<>>
              THEN {pool_release(w0)}
              ELSE {AfterChain(r)
                    : r \in filter_release_read_buf(w1, buf, w0.read_buf,
                                                    nbytes0)}
    IN {Log(SweepFilters(w4, w4.flags), "release_read_buf_ret")
        : w4 \in ws}

----------------------------------------------------------------------------
(* ReadTask and poll_read_buf (asyncstd.rs) *)

RDone(w) == [w EXCEPT !.rtask = "Done"]

\* answers of state.poll_ready(cx) (the chain's poll_read_ready): the read
\* pump is paused while RD_BUF_FULL is set
ReadStatuses(fl) ==
    IF RD_BUF_FULL \in fl THEN {"Pending", "Terminate"}
    ELSE {"Ready", "Pending", "Terminate"}

\* answers of the transport's poll_read for a destination of `room` bytes
PollReadResults(w, room) ==
    {[k |-> "Pending", n |-> 0], [k |-> "Err", n |-> 0], [k |-> "Ok", n |-> 0]}
        \cup {[k |-> "Ok", n |-> i]
              : i \in 1..(IF room < MaxRecv - w.nrecv THEN room
                          ELSE MaxRecv - w.nrecv)}

\* io.poll_read(cx, dst) was called and gave the answer r
TransportRead(w, r) ==
    LET w1 == LogRun(w, "read")
    IN CASE r.k = "Err" -> Log(w1, "read_err")
         [] r.k = "Ok" /\ r.n = 0 -> Log(w1, "read_eof")
         [] OTHER -> w1

\* poll_read_buf: the set of [w, buf, k, n]
poll_read_buf(w, buf) ==
    IF remaining_mut(buf) = 0
    THEN {[w |-> w, buf |-> buf, k |-> "Ok", n |-> 0]}
    ELSE {[w |-> [TransportRead(w, r) EXCEPT !.nrecv = @ + r.n],
           buf |-> advance_mut(buf, Iota(w.nrecv + 1, w.nrecv + r.n)),
           k |-> r.k, n |-> r.n]
          : r \in PollReadResults(w, remaining_mut(buf))}

\* lines 261-264: make sure we've got room
MakeRoom(buf) ==
    IF remaining_mut(buf) < ReadLw
    THEN reserve(buf, ReadHw - remaining_mut(buf))
    ELSE buf

\* variant: the batch stops once the high watermark is reached
ReadMore_Lt(new_bytes) == new_bytes < ReadHw

\* whether the batch goes on after a read that brought new_bytes in total
ReadMore(new_bytes) == new_bytes <= ReadHw

\* the inner loop of lines 259-290: the set of [w, buf, new_bytes, how], how
\* being "pending", "close", "full" or "err"
RECURSIVE ReadLoop(_, _, _)
ReadLoop(w, buf, new_bytes) ==
    UNION {
      CASE r.k = "Pending" ->
             {[w |-> r.w, buf |-> r.buf, new_bytes |-> new_bytes,
               how |-> "pending"]}
        [] r.k = "Err" ->
             {[w |-> r.w, buf |-> r.buf, new_bytes |-> new_bytes,
               how |-> "err"]}
        [] r.n = 0 ->
             {[w |-> r.w, buf |-> r.buf, new_bytes |-> new_bytes,
               how |-> "close"]}
        [] OTHER ->
             \* new_bytes += nbytes
             LET w1 == LogN(r.w, "new_bytes", new_bytes + r.n)
             IN IF ReadMore(new_bytes + r.n)
                THEN ReadLoop(w1, r.buf, new_bytes + r.n)
                ELSE {[w |-> w1, buf |-> r.buf,
                       new_bytes |-> new_bytes + r.n, how |-> "full"]}
      : r \in poll_read_buf(w, MakeRoom(buf)) }

\* variant: EOF with nothing new leaves the task pending
EofNoNewBytes_Pending(w, buf) == w

\* lines 292-295: EOF and nothing new in this batch
EofNoNewBytes(w, buf) == RDone(close(w, "read", "None", "eof"))

\* variant: the task does not ask the chain and finds itself ready
ReadContext_poll_ready_Unasked(w) == {"Ready", "Pending", "Terminate"}

\* ReadContext::poll_ready: self.0.filter().poll_read_ready(cx)
ReadContext_poll_ready(w) == ReadStatuses(w.flags)

\* ReadTask::poll: the set of states one call can end in
RECURSIVE ReadTask_poll(_)
ReadTask_poll(w) ==
    UNION {
      LET w0 == LogA(w, "poll_ready", 0, <<s>>)
      IN
      CASE s = "Pending" -> {w0}
        [] s = "Terminate" -> {RDone(Log(w0, "terminate"))}
        [] OTHER ->
             LET g == get_read_buf(w0)
             IN UNION {
                  CASE l.how = "err" ->
                         {RDone(close(w3, "read", "Io", "read_err"))
                          : w3 \in release_read_buf(l.w, l.buf,
                                                    l.new_bytes)}
                    [] l.how = "close" /\ l.new_bytes = 0 ->
                         {EofNoNewBytes(l.w, l.buf)}
                    [] l.how = "close" ->
                         {RDone(close(w3, "read", "None", "eof"))
                          : w3 \in release_read_buf(l.w, l.buf,
                                                    l.new_bytes)}
                    [] l.how = "pending" ->
                         release_read_buf(l.w, l.buf, l.new_bytes)
                    [] OTHER ->
                         UNION {ReadTask_poll(w3)
                                : w3 \in release_read_buf(l.w, l.buf,
                                                          l.new_bytes)}
                  : l \in ReadLoop(g.w, g.buf, 0) }
      : s \in ReadContext_poll_ready(w) }

----------------------------------------------------------------------------
(* The read loop over a pool of any read watermarks (asyncstd.rs 259-290) *)

\* variant: room is reserved on every turn of the loop
NeedsRoom_Always(remaining, lw) == TRUE

\* if remaining < lw
NeedsRoom(remaining, lw) == remaining < lw

\* hw - remaining, before the usize subtraction is carried out
Additional(hw, remaining) == hw - remaining

\* lines 261-264 for watermarks (hw, lw): [buf, reserved, underflow], with
\* reserved the amount asked of buf.reserve, None when it was not called.
\* A negative hw - remaining is a usize underflow: a panic with overflow
\* checks, a wrapped amount that no allocation can serve without them
RoomFor(buf, hw, lw) ==
    IF ~NeedsRoom(remaining_mut(buf), lw)
    THEN [buf |-> buf, reserved |-> None, underflow |-> FALSE]
    ELSE IF Additional(hw, remaining_mut(buf)) < 0
    THEN [buf |-> buf, reserved |-> None, underflow |-> TRUE]
    ELSE [buf |-> reserve(buf, Additional(hw, remaining_mut(buf))),
          reserved |-> Some(Additional(hw, remaining_mut(buf))),
          underflow |-> FALSE]

\* the loop is not being run
RoomIdle ==
    [hw |-> 0, lw |-> 0, buf |-> [d |-> <<>>, rem |-> 0], before |-> 0,
     reserved |-> None, st |-> "Idle", how |-> "none"]

\* the pools and the buffers the loop starts with: read_params() with
\* low <= high, and a buffer from get_read_buf, which comes from the chain
\* with any spare capacity or from the pool with at least the low watermark
RoomStarts ==
    {[RoomIdle EXCEPT !.hw = c[1], !.lw = c[2], !.buf.rem = r, !.st = "Loop"]
     : c \in {x \in (1..MaxWatermark) \X (0..MaxWatermark) : x[2] <= x[1]},
       r \in 0..MaxSpare}

\* one turn of the loop: room is made, and poll_read_buf either answers
\* Ok(0) for a buffer without spare capacity (lines 555-557), leaving the
\* transport alone, or reads from the transport.  The set of states of the
\* loop after the turn; Ok(0) ends the loop with close = true either way
RoomTurn(m) ==
    LET f == RoomFor(m.buf, m.hw, m.lw)
        m1 == [m EXCEPT !.buf = f.buf, !.before = remaining_mut(m.buf),
                        !.reserved = f.reserved]
    IN IF f.underflow
       THEN {[m1 EXCEPT !.st = "Failed", !.how = h] : h \in {"panic", "wrap"}}
       ELSE IF remaining_mut(f.buf) = 0
       THEN {[m1 EXCEPT !.st = "Closed", !.how = "full"]}
       ELSE {[m1 EXCEPT !.st = "Pending", !.how = "pending"],
             [m1 EXCEPT !.st = "Closed", !.how = "err"],
             [m1 EXCEPT !.st = "Closed", !.how = "eof"]}
               \cup {[m1 EXCEPT
                         !.buf = [advance_mut(f.buf, Iota(1, n))
                                     EXCEPT !.d = <<>>],
                         !.how = "read"]
                     : n \in 1..remaining_mut(f.buf)}

\* the next poll of the task: get_read_buf hands out the buffer the chain
\* holds, or a buffer of the pool with at least low watermark capacity
RoomAgain(m) ==
    {[m EXCEPT !.st = "Loop", !.how = "none", !.buf.rem = r]
     : r \in {remaining_mut(m.buf)} \cup (m.lw)..MaxSpare}

----------------------------------------------------------------------------
(* The consumers of the read path *)

\* the dispatcher decodes k bytes out of read_buf and asks for more: an
\* emptied buffer goes back to the pool, and the read flags are cleared
DispatcherTake(w, k) ==
    LET b == split_to(Unwrap(w.read_buf), k)
    IN [w EXCEPT !.delivered = @ \o SubSeq(Unwrap(w.read_buf).d, 1, k),
                 !.read_buf = IF b.d = <<>> THEN None ELSE Some(b),
                 !.flags = @ \ {RD_READY, RD_BUF_FULL}]

\* Wrapper::read, called by the handshake: the first k bytes of the TLS
\* filter's read_buf go to the session
WrapperRead(w, k) ==
    [w EXCEPT !.tls_taken = @ \o SubSeq(Unwrap(w.tls_read_buf).d, 1, k),
              !.tls_read_buf = Some(split_to(Unwrap(@), k))]

----------------------------------------------------------------------------
(* TlsClientFilter::create (client.rs) *)

\* the future at the top of its loop, before the first complete_io
CreateStart ==
    [pc |-> "Loop", result |-> "None", wants_read |-> FALSE, ret |-> "None"]

\* the future after it returned ret
CreateReturned(ret) ==
    [pc |-> "Returned", result |-> "Ok", wants_read |-> FALSE, ret |-> ret]

\* create returns ret
Return(w, ret) == [w EXCEPT !.cr.pc = "Returned", !.cr.ret = ret]

\* session.complete_io(&mut wrp) of a handshaking session: the set of
\* [w, result]. The handshake is complete once the session has taken
\* HandshakeLen raw bytes; until then the session reads through
\* Wrapper::read, which answers WouldBlock when the filter's read_buf is
\* absent or empty (lines 194-208), and the session or a write can fail
RECURSIVE complete_io(_)
complete_io(w) ==
    IF Len(w.tls_taken) >= HandshakeLen
    THEN {[w |-> [w EXCEPT !.chain = "tls"], result |-> "Ok"]}
    ELSE {[w |-> w, result |-> "Err"]}
             \cup (IF Content(w.tls_read_buf) = <<>>
                      \/ Unwrap(w.tls_read_buf).d = <<>>
                   THEN {[w |-> w, result |-> "WouldBlock"]}
                   ELSE UNION {complete_io(WrapperRead(w, k))
                               : k \in 1..Len(Unwrap(w.tls_read_buf).d)})

\* answers of session.wants_read() after complete_io gave `result`: a
\* session whose read was answered WouldBlock still wants to read
WantsRead(result) == IF result = "WouldBlock" THEN {TRUE} ELSE BOOLEAN

\* Io::poll_read_ready: [w, r]. Err or Ok(None) once the io is stopped,
\* Ok(Some(())) with the read flags cleared when RD_READY is set, or Pending
poll_read_ready(w) ==
    IF w.term.stopped
    THEN [w |-> w, r |-> IF w.term.error = "None" THEN "None" ELSE "Err"]
    ELSE IF RD_READY \in w.flags
    THEN [w |-> [w EXCEPT !.flags = @ \ {RD_READY, RD_BUF_FULL}],
          r |-> "Some"]
    ELSE [w |-> w, r |-> "Pending"]

\* variant: WouldBlock is handed to the caller
CreateMatch_ReturnWouldBlock(w) ==
    CASE w.cr.result = "Ok" -> Return(w, "Ok")
      [] w.cr.result = "WouldBlock" -> Return(w, "WouldBlock")
      [] OTHER -> Return(w, "Err")

\* match result (lines 284-307), up to the await of the WouldBlock arm
CreateMatch(w) ==
    CASE w.cr.result = "Ok" -> Return(w, "Ok")
      [] w.cr.result = "WouldBlock" -> [w EXCEPT !.cr.pc = "AwaitBlock"]
      [] OTHER -> Return(w, "Err")

\* lines 256-283 after complete_io: the pending TLS output is written
\* (write_tls answers wr), and with result Ok and wants_read the future
\* awaits read readiness before it looks at the result
AfterCompleteIo(w, result, wants_read, wr) ==
    LET w1 == [w EXCEPT !.cr.result = result, !.cr.wants_read = wants_read]
    IN IF wr = "Err" THEN Return(w1, "Err")
       ELSE IF result = "Ok" /\ wants_read
       THEN [w1 EXCEPT !.cr.pc = "AwaitOk"]
       ELSE CreateMatch(w1)

\* one pass of the loop from its top to the next await or return
CreateLoop(w) ==
    UNION {
      {AfterCompleteIo(c.w, c.result, wants, wr)
       : wants \in WantsRead(c.result), wr \in {"Ok", "Err"}}
      : c \in complete_io(w) }

\* the await of lines 273-282 polled: Ok(None) is "disconnected"
CreateAwaitOk(w) ==
    LET p == poll_read_ready(w)
    IN CASE p.r = "Some" -> CreateMatch(p.w)
         [] p.r = "None" -> Return(p.w, "Disconnected")
         [] p.r = "Err" -> Return(p.w, "Err")
         [] OTHER -> p.w

\* the await of lines 286-304 polled
CreateAwaitBlock(w) ==
    IF w.cr.wants_read
    THEN LET p == poll_read_ready(w)
         IN CASE p.r = "Some" -> [p.w EXCEPT !.cr.pc = "Loop"]
              [] p.r = "None" -> Return(p.w, "Disconnected")
              [] p.r = "Err" -> Return(p.w, "Err")
              [] OTHER -> p.w
    ELSE [w EXCEPT !.cr.pc = "Loop"]

----------------------------------------------------------------------------
(* Initial state and actions *)

\* the Io over chain c before any task ran
InitIo(c) ==
    /\ chain = c
    /\ tls_read_buf = None
    /\ tls_taken = <<>>
    /\ tls_sess = <<>>
    /\ tls_write_buf = None
    /\ tls_wsess = <<>>
    /\ wfail = "None"
    /\ nrecv = 0
    /\ delivered = <<>>
    /\ rtask = "Running"
    /\ flags = {}
    /\ read_buf = None
    /\ write_buf = None
    /\ wire = <<>>
    /\ nsent = 0
    /\ wtask = WriteTaskNew
    /\ halfClosed = FALSE
    /\ ioClosed = FALSE
    /\ closes = <<>>
    /\ term = NotStopped
    /\ wpolls = 0
    /\ plog = <<>>

\* the Io over chain c with no ALPN protocol negotiated and nothing queried
InitWith(c) ==
    /\ InitIo(c) /\ alpn = None /\ queried = None /\ cr = CreateReturned("Ok")
    /\ rloop = RoomIdle

\* the write path is the same under every chain: Base alone
Init == InitWith("base")

\* one poll of the WriteTask future
WritePoll ==
    /\ wtask.st # "Done"
    /\ \E w2 \in WriteTask_poll([World EXCEPT !.wpolls = 1 - @], MaxRepoll) :
           Commit(w2)

\* the disconnect timer armed by WriteTask reaches its deadline
TimerFire ==
    /\ wtask.st # "Done"
    /\ IsSome(wtask.delay)
    /\ ~Unwrap(wtask.delay).elapsed
    /\ wtask' = [wtask EXCEPT !.delay = Some([Unwrap(@) EXCEPT !.elapsed = TRUE])]
    /\ plog' = <<>>
    /\ UNCHANGED <<flags, read_buf, write_buf, wire, nsent, halfClosed,
                   ioClosed, closes, term, wpolls, readVars, tlsWriteVars, sessVars, roomVars, cr>>

\* the dispatcher sends k bytes
Send ==
    \E k \in 1..MaxBytes :
        /\ wtask.st # "Done"
        /\ nsent + k <= MaxBytes
        /\ Commit(IoSend(World, k))

\* the dispatcher starts to wait for the write buffer to drain
WaitDrain ==
    /\ wtask.st # "Done"
    /\ IsSome(write_buf)
    /\ WR_WAIT \notin flags
    /\ flags' = flags \cup {WR_WAIT}
    /\ plog' = <<>>
    /\ UNCHANGED <<read_buf, write_buf, wire, nsent, wtask, halfClosed,
                   ioClosed, closes, term, wpolls, readVars, tlsWriteVars, sessVars, roomVars, cr>>

\* a filter asks for the shutdown sweep
SetIoFilters ==
    /\ wtask.st # "Done"
    /\ IO_FILTERS \notin flags
    /\ flags' = flags \cup {IO_FILTERS}
    /\ plog' = <<>>
    /\ UNCHANGED <<read_buf, write_buf, wire, nsent, wtask, halfClosed,
                   ioClosed, closes, term, wpolls, readVars, tlsWriteVars, sessVars, roomVars, cr>>

NextWrite == WritePoll \/ TimerFire \/ Send \/ WaitDrain \/ SetIoFilters

SpecWrite == Init /\ [][NextWrite]_vars

\* the chains the read path is checked under
Chains == {"base", "tls_hs", "tls"}

InitRead == \E c \in Chains : InitWith(c)

writeVars == <<write_buf, wire, nsent, wtask, halfClosed, ioClosed, wpolls>>

\* one poll of the ReadTask future
ReadPoll ==
    /\ rtask # "Done"
    /\ \E w2 \in ReadTask_poll(World) : Commit(w2)

\* the dispatcher takes k bytes out of read_buf
DispatcherRead ==
    /\ IsSome(read_buf)
    /\ \E k \in 0..Len(Unwrap(read_buf).d) : Commit(DispatcherTake(World, k))

\* the TLS handshake reads k bytes out of the filter's read_buf
HandshakeRead ==
    /\ chain = "tls_hs"
    /\ IsSome(tls_read_buf)
    /\ \E k \in 1..Len(Unwrap(tls_read_buf).d) : Commit(WrapperRead(World, k))

\* a filter asks for the shutdown sweep
SetIoFiltersRead ==
    /\ rtask # "Done"
    /\ IO_FILTERS \notin flags
    /\ flags' = flags \cup {IO_FILTERS}
    /\ plog' = <<>>
    /\ UNCHANGED <<read_buf, closes, term, writeVars, readVars, tlsWriteVars, sessVars, roomVars, cr>>

NextRead == ReadPoll \/ DispatcherRead \/ HandshakeRead \/ SetIoFiltersRead

SpecRead == InitRead /\ [][NextRead]_vars

\* The two directions of the TLS filter share no state: release_read_buf
\* works on IoInner.read_buf and the session's reader, release_write_buf on
\* IoInner.write_buf and the session's writer. They are explored one after
\* the other: the dispatcher's sends come before the first byte is received.

\* the dispatcher sends k bytes through the TLS filter
TlsSend ==
    \E k \in 1..MaxBytes :
        /\ wfail = "None"
        /\ nrecv = 0
        /\ nsent + k <= MaxBytes
        /\ \E w2 \in TlsIoSend(World, k) : Commit(w2)

\* one poll of the ReadTask future over the TLS filter
TlsReadPoll == nsent = 0 /\ ReadPoll

\* the TLS handshake reads from the filter's read_buf
TlsHandshakeRead == nsent = 0 /\ HandshakeRead

InitTls == \E c \in {"tls_hs", "tls"} : InitWith(c)

NextTls == TlsReadPoll \/ TlsHandshakeRead \/ TlsSend

\* the TLS client filter under the read pump, the handshake and the
\* dispatcher's sends
SpecTls == InitTls /\ [][NextTls]_vars

\* Both pumps release their buffers through the contexts of tasks.rs. The
\* pumps share only the flag word, and each touches its own bits of it, so
\* they are explored one after the other: the write pump and the sends come
\* before the read pump has received or stopped.

\* the polls of the two pumps, the dispatcher's sends, drain waits and
\* reads, and a filter's request for the sweep
NextSweep ==
    \/ nrecv = 0 /\ rtask # "Done" /\ WritePoll
    \/ nrecv = 0 /\ rtask # "Done" /\ Send
    \/ nrecv = 0 /\ rtask # "Done" /\ WaitDrain
    \/ nsent = 0 /\ wtask = WriteTaskNew /\ ReadPoll
    \/ nsent = 0 /\ wtask = WriteTaskNew /\ DispatcherRead
    \/ SetIoFilters

\* the two pumps and the dispatcher over the Base filter, a filter asking
\* for the shutdown sweep at any time
SpecSweep == Init /\ [][NextSweep]_vars

\* a call of TlsClientFilter::query with the type id `id`
Query ==
    \E id \in QueryIds :
        /\ queried' = Some([id |-> id, ret |-> query(alpn, id)])
        /\ UNCHANGED <<flags, read_buf, closes, term, plog, alpn, cr,
                       writeVars, readVars, tlsWriteVars, roomVars>>

\* the session negotiated any of the protocol names, or none
InitQuery ==
    /\ InitIo("tls")
    /\ alpn \in {None} \cup {Some(name) : name \in AlpnNames}
    /\ queried = None
    /\ cr = CreateReturned("Ok")
    /\ rloop = RoomIdle

NextQuery == Query

\* TlsClientFilter::query over every negotiated protocol name
SpecQuery == InitQuery /\ [][NextQuery]_vars

\* create runs its loop from the top to the next await or return
CreateIo ==
    /\ cr.pc = "Loop"
    /\ \E w2 \in CreateLoop(World) : Commit(w2)

\* create, awaiting read readiness after complete_io gave Ok, is polled
CreatePollOk ==
    /\ cr.pc = "AwaitOk"
    /\ Commit(CreateAwaitOk(World))

\* create, awaiting read readiness after WouldBlock, is polled
CreatePollBlock ==
    /\ cr.pc = "AwaitBlock"
    /\ Commit(CreateAwaitBlock(World))

\* the read pump runs while create is at work
CreateReadPoll == cr.pc # "Returned" /\ ReadPoll

InitCreate ==
    /\ InitIo("tls_hs") /\ alpn = None /\ queried = None /\ cr = CreateStart
    /\ rloop = RoomIdle

NextCreate == CreateIo \/ CreatePollOk \/ CreatePollBlock \/ CreateReadPoll

\* TlsClientFilter::create over a fresh Io whose read pump is running
SpecCreate == InitCreate /\ [][NextCreate]_vars

\* one connection: both pumps run over the same shared state and are polled
\* in any order; the log of a poll is kept when the pump was told to
\* terminate in it
TerminateLog(w) ==
    [w EXCEPT !.plog = IF \E i \in 1..Len(@) : @[i].ev = "terminate"
                       THEN @ ELSE <<>>]

\* one poll of the ReadTask future
ConnReadPoll ==
    /\ rtask # "Done"
    /\ \E w2 \in ReadTask_poll(World) : Commit(TerminateLog(w2))

\* one poll of the WriteTask future
ConnWritePoll ==
    /\ wtask.st # "Done"
    /\ \E w2 \in WriteTask_poll([World EXCEPT !.wpolls = 1 - @], MaxRepoll) :
           Commit(TerminateLog(w2))

\* the dispatcher sends its first frame, of one byte
ConnSend ==
    /\ wtask.st # "Done"
    /\ nsent = 0
    /\ Commit(IoSend(World, 1))

NextConn == ConnReadPoll \/ ConnWritePoll \/ TimerFire \/ ConnSend

SpecConn == Init /\ [][NextConn]_vars

\* The runtime polls a spawned WriteTask again and again until it is done.
\* Every WritePoll step, and no other step, flips wpolls, and WritePoll is
\* enabled exactly while the task is not done, so this is WF_vars(WritePoll)
\* stated over the states.
WriteTaskPolled ==
    /\ []<>(wtask.st = "Done" \/ wpolls = 0)
    /\ []<>(wtask.st = "Done" \/ wpolls = 1)

\* the write path with the scheduling the runtime gives: the task is polled,
\* and an armed timer reaches its deadline
FairSpecWrite ==
    Init /\ [][NextWrite]_vars /\ WF_vars(TimerFire) /\ WriteTaskPolled

\* positions in plog of the effect `name`
Evs(name) == {i \in 1..Len(plog) : plog[i].ev = name}

\* one poll of WriteTask on a connection that stays up: the chain neither
\* shuts the task down nor stops it, and nothing closes the chain
LiveWritePoll ==
    /\ WritePoll
    /\ wtask'.st = "Processing"
    /\ closes' = closes

NextLive == LiveWritePoll \/ TimerFire \/ Send \/ WaitDrain \/ SetIoFilters

\* the step that led here was a poll in which the chain reported Ready and
\* the transport took whatever it was offered
AcceptingPoll == Evs("ready") # {} /\ Evs("write_pending") = {}

\* the write path of a connection that stays up, whose transport accepts
\* bytes again and again and whose WriteTask is polled when the chain is
\* ready to write
LiveSpecWrite == Init /\ [][NextLive]_vars /\ []<>AcceptingPoll

InitRoom ==
    /\ InitIo("base") /\ alpn = None /\ queried = None
    /\ cr = CreateReturned("Ok")
    /\ rloop \in RoomStarts

\* one turn of the read loop, or the next poll of the task after a Pending
\* read; the connection's other state is left alone
NextRoom ==
    \/ /\ rloop.st = "Loop"
       /\ \E m \in RoomTurn(rloop) : rloop' = m
       /\ UNCHANGED <<flags, read_buf, closes, term, plog, cr, writeVars,
                      readVars, tlsWriteVars, sessVars>>
    \/ /\ rloop.st = "Pending"
       /\ \E m \in RoomAgain(rloop) : rloop' = m
       /\ UNCHANGED <<flags, read_buf, closes, term, plog, cr, writeVars,
                      readVars, tlsWriteVars, sessVars>>

\* the read loop of ReadTask over every pool and every buffer
SpecRoom == InitRoom /\ [][NextRoom]_vars

----------------------------------------------------------------------------
(* Properties of the write path *)

\* for the return of a release_write_buf call at position j, the position
\* of that call's entry
EntryOf(j) ==
    CHOOSE i \in 1..j :
        /\ plog[i].ev = "release_write_buf"
        /\ \A k \in (i + 1)..j : plog[k].ev # "release_write_buf"

\* flush_io dropped the buffer it had taken (poll_write failed or wrote 0)
BufferDropped ==
    \E i \in 1..Len(closes) : closes[i].why \in {"write_err", "write_zero"}

\* C1: the bytes on the transport are a prefix of the deposited bytes, in
\* order, none duplicated or skipped, and unless a failed write dropped the
\* buffer, write_buf holds exactly the deposited bytes not yet written
C1_WirePrefix ==
    /\ Len(wire) <= nsent
    /\ wire = Iota(1, Len(wire))
    /\ ~BufferDropped => wire \o Content(write_buf) = Iota(1, nsent)

\* C1 witness: a partial flush left a suffix, and both parts are non-trivial
C1_Witness ==
    /\ Len(wire) = 2
    /\ Len(Content(write_buf)) = 2
    /\ Evs("write") # {}
    /\ Evs("set_write_buf") # {}

\* C3 as stated: after release_write_buf WR_BACKPRESSURE is set iff the
\* write buffer is strictly longer than 2 x the write high watermark
C3_Original ==
    \A j \in Evs("release_write_buf_ret") :
        WR_BACKPRESSURE \in plog[j].flags
            <=> Len(Content(plog[j].wbuf)) > BackpressureLimit

\* C3 amended: after release_write_buf WR_BACKPRESSURE is set iff it was set
\* when the call began and the buffer put back is at least 2 x the write
\* high watermark long
C3_Amended ==
    \A j \in Evs("release_write_buf_ret") :
        WR_BACKPRESSURE \in plog[j].flags
            <=> /\ WR_BACKPRESSURE \in plog[EntryOf(j)].flags
                /\ Len(Content(plog[j].wbuf)) >= BackpressureLimit

\* C3 witness: a release that leaves exactly 2 x high watermark bytes with
\* back-pressure still on
C3_Witness ==
    \E j \in Evs("release_write_buf_ret") :
        /\ WR_BACKPRESSURE \in plog[j].flags
        /\ Len(Content(plog[j].wbuf)) = BackpressureLimit

\* C4: after release_write_buf returns, WR_BACKPRESSURE set implies that
\* write_buf is present and at least 2 x the write high watermark long
C4_BackpressureImpliesLong ==
    \A j \in Evs("release_write_buf_ret") :
        WR_BACKPRESSURE \in plog[j].flags
            => /\ IsSome(plog[j].wbuf)
               /\ Len(Unwrap(plog[j].wbuf)) >= BackpressureLimit

\* C4 witness: a partial flush returned with back-pressure on and more than
\* 2 x high watermark bytes left
C4_Witness ==
    \E j \in Evs("release_write_buf_ret") :
        /\ WR_BACKPRESSURE \in plog[j].flags
        /\ Evs("write") # {}
        /\ Len(Content(plog[j].wbuf)) > BackpressureLimit

\* the flags among WR_WAIT, WR_BACKPRESSURE that the call returning at j
\* cleared
ClearedBy(j) ==
    (plog[EntryOf(j)].flags \cap {WR_WAIT, WR_BACKPRESSURE}) \ plog[j].flags

\* the wakes of dispatch_task inside the call returning at j
WakesIn(j) ==
    {k \in EntryOf(j)..j : plog[k].ev = "wake_dispatch"}

\* C8: in release_write_buf, a clear of WR_WAIT or WR_BACKPRESSURE is stored
\* in the shared flags before dispatch_task is woken, each clear comes with
\* exactly one wake, and there is no wake when neither flag changes
C8_ClearBeforeWake ==
    \A j \in Evs("release_write_buf_ret") :
        /\ ClearedBy(j) # {}
              => /\ Cardinality(WakesIn(j)) = 1
                 /\ \A k \in WakesIn(j) : plog[k].flags \cap ClearedBy(j) = {}
        /\ ClearedBy(j) = {} => WakesIn(j) = {}

\* C8 witness: a partial flush cleared WR_BACKPRESSURE alone and woke
C8_Witness ==
    \E j \in Evs("release_write_buf_ret") :
        /\ ClearedBy(j) = {WR_BACKPRESSURE}
        /\ WR_WAIT \in plog[j].flags
        /\ WakesIn(j) # {}

\* the close calls WriteTask made while in the Shutdown state
ShutdownCloses ==
    {i \in 1..Len(closes) : closes[i].by = "write" /\ closes[i].st = "Shutdown"}

\* the ordering of the graceful shutdown that C9 and its amendment share:
\* half-close only with the buffer flushed, drain only after the half-close,
\* no write after the half-close
C9_Ordering ==
    /\ \A k \in Evs("shutdown_write") \cup Evs("shutdown_write_err") :
          plog[k].wbuf = None /\ ~plog[k].half
    /\ \A k \in Evs("read") : plog[k].half
    /\ \A k \in Evs("write") : ~plog[k].half
    /\ wtask.sub = "Stopping" => halfClosed
    /\ halfClosed => wtask.sub = "Stopping"

\* C9 as stated: the ordering, and in the Shutdown state the chain is closed
\* only after peer EOF, a read error, too much input or the disconnect delay
C9_Original ==
    /\ C9_Ordering
    /\ \A i \in ShutdownCloses :
          closes[i].why \in {"eof", "read_err", "too_much", "delay"}

\* C9 amended: the ordering, and in the Shutdown state the chain is closed
\* only after peer EOF, a read error, too much input, the disconnect delay,
\* a failed flush or a failed half-close; closes for EOF, read error and too
\* much input come after the half-close, those for a failed flush or a
\* failed half-close before any half-close
C9_Amended ==
    /\ C9_Ordering
    /\ \A i \in ShutdownCloses :
          /\ closes[i].why \in {"eof", "read_err", "too_much", "delay",
                                "write_err", "write_zero", "flush_err",
                                "flush_failed", "half_close_err"}
          /\ closes[i].why \in {"eof", "read_err", "too_much"} => halfClosed
          /\ closes[i].why \in {"write_err", "write_zero", "flush_err",
                                "flush_failed", "half_close_err"}
                => ~halfClosed

\* C9 witness: a shutdown that flushed bytes, half-closed, drained input and
\* closed on the peer's EOF
C9_Witness ==
    /\ wtask.st = "Done"
    /\ halfClosed
    /\ wire # <<>>
    /\ wtask.count > 0
    /\ \E i \in ShutdownCloses : closes[i].why = "eof"

\* C10: a WriteTask that entered the Shutdown state terminates, and a poll
\* made with the disconnect delay elapsed closes the chain and ends the task,
\* closing the transport too when it is the delay that ends it
C10_ShutdownTerminates ==
    /\ (wtask.st = "Shutdown") ~> (wtask.st = "Done")
    /\ [][(/\ wtask.st = "Shutdown"
           /\ poll_elapsed(Unwrap(wtask.delay))
           /\ wpolls' # wpolls)
             => /\ wtask'.st = "Done"
                /\ Len(closes') > Len(closes)
                /\ closes'[Len(closes')].why = "delay" => ioClosed']_vars

\* C10 witness: the delay ended a shutdown whose flush never completed and
\* whose peer never sent EOF, closing the chain and the transport
C10_Witness ==
    /\ wtask.st = "Done"
    /\ wtask.sub = "None"
    /\ Content(write_buf) # <<>>
    /\ ioClosed
    /\ closes # <<>>
    /\ closes[Len(closes)].why = "delay"

----------------------------------------------------------------------------
(* Properties of the read path *)

\* for the return of a release_read_buf call at position j, the position of
\* that call's entry
REntryOf(j) ==
    CHOOSE i \in 1..j :
        /\ plog[i].ev = "release_read_buf"
        /\ \A k \in (i + 1)..j : plog[k].ev # "release_read_buf"

\* the call returning at j stored a decoded buffer with nbytes > 0
StoredNew(j) ==
    \E k \in REntryOf(j)..j : plog[k].ev = "set_read_buf" /\ plog[k].n > 0

\* C2 as stated, for the chains that pass the received bytes on as they
\* are: every byte received from the transport is delivered to the
\* dispatcher, in read_buf, or held by the filter (its read_buf and what the
\* handshake took from it)
C2_Conservation ==
    chain \in {"base", "tls_hs"}
        => Iota(1, nrecv)
              = delivered \o RContent(read_buf) \o tls_taken
                    \o RContent(tls_read_buf)

\* C5 as stated: after release_read_buf RD_BUF_FULL is set iff the stored
\* read buffer is longer than the read high watermark, for every nbytes
C5_Original ==
    \A j \in Evs("release_read_buf_ret") :
        RD_BUF_FULL \in plog[j].flags
            <=> Len(RContent(plog[j].rbuf)) > ReadHw

\* C5 amended: after a release_read_buf call in which the chain reports
\* nbytes > 0 and leaves a decoded buffer, RD_BUF_FULL is set iff that buffer
\* is longer than the read high watermark or the flag was set before; every
\* other call (nbytes = 0, no decoded buffer) leaves RD_BUF_FULL as it was
C5_Amended ==
    \A j \in Evs("release_read_buf_ret") :
        IF StoredNew(j)
        THEN RD_BUF_FULL \in plog[j].flags
                <=> \/ Len(RContent(plog[j].rbuf)) > ReadHw
                    \/ RD_BUF_FULL \in plog[REntryOf(j)].flags
        ELSE RD_BUF_FULL \in plog[j].flags
                <=> RD_BUF_FULL \in plog[REntryOf(j)].flags

\* C5 witness: new bytes made the stored buffer longer than the high
\* watermark and RD_BUF_FULL was set
C5_Witness ==
    \E j \in Evs("release_read_buf_ret") :
        /\ StoredNew(j)
        /\ Len(RContent(plog[j].rbuf)) > ReadHw
        /\ RD_BUF_FULL \in plog[j].flags
        /\ RD_BUF_FULL \notin plog[REntryOf(j)].flags

\* C6 as stated: exactly one of RD_READY, RD_BUF_FULL is set iff read_buf is
\* non-empty, neither is set when no read buffer is stored, and the two are
\* never set together
C6_Original ==
    /\ ((RD_READY \in flags) # (RD_BUF_FULL \in flags))
          <=> RContent(read_buf) # <<>>
    /\ read_buf = None => flags \cap {RD_READY, RD_BUF_FULL} = {}
    /\ ~({RD_READY, RD_BUF_FULL} \subseteq flags)

\* C6 amended: after a release_read_buf call that stored newly decoded bytes
\* RD_READY is set and read_buf is non-empty; RD_BUF_FULL is set only
\* together with RD_READY, and only for a buffer longer than the high
\* watermark; the call clears no flag
C6_Amended ==
    \A j \in Evs("release_read_buf_ret") :
        /\ StoredNew(j)
              => /\ RD_READY \in plog[j].flags
                 /\ RContent(plog[j].rbuf) # <<>>
        /\ RD_BUF_FULL \in plog[j].flags \ plog[REntryOf(j)].flags
              => /\ RD_READY \in plog[j].flags
                 /\ Len(RContent(plog[j].rbuf)) > ReadHw
        /\ plog[REntryOf(j)].flags \subseteq plog[j].flags

\* C6 witness: a release that left both flags set
C6_Witness ==
    \E j \in Evs("release_read_buf_ret") :
        /\ StoredNew(j)
        /\ {RD_READY, RD_BUF_FULL} \subseteq plog[j].flags

\* the wakes of dispatch_task inside the release_read_buf call returning at j
RWakesIn(j) ==
    {k \in REntryOf(j)..j : plog[k].ev = "wake_dispatch"}

\* C7 as stated: whenever release_read_buf wakes dispatch_task, the decoded
\* bytes are already in read_buf and RD_READY is already set
C7_StoredBeforeWake ==
    \A j \in Evs("release_read_buf_ret") :
        \A k \in RWakesIn(j) :
            /\ RD_READY \in plog[k].flags
            /\ plog[k].rbuf = plog[j].rbuf

----------------------------------------------------------------------------
(* Properties of termination *)

RECURSIVE ReleasedNew(_)
ReleasedNew(log) ==
    IF log = <<>> THEN 0
    ELSE (IF Head(log).ev = "release_read_buf" THEN Head(log).n ELSE 0)
            + ReleasedNew(Tail(log))

\* the poll that ran last ended with close(err) and the task is done
EndedWithClose(err) ==
    /\ plog[Len(plog)].ev = "close"
    /\ closes[Len(closes)].by = "read"
    /\ closes[Len(closes)].err = err
    /\ rtask = "Done"

\* what the log of a poll shows after a transport read of 0 bytes or a
\* failed transport read
ReadTerminalLog ==
    /\ \A k \in Evs("read_eof") :
          /\ EndedWithClose("None")
          /\ \A j \in (k + 1)..Len(plog) : plog[j].ev # "read"
    /\ \A k \in Evs("read_err") :
          /\ EndedWithClose("Io")
          /\ plog[k + 1].ev = "release_read_buf"
          /\ plog[Len(plog) - 1].ev = "release_read_buf_ret"
          /\ Cardinality(Evs("close")) = 1
          /\ \A j \in (k + 1)..Len(plog) : plog[j].ev # "read"

\* C12: a transport read of 0 bytes makes ReadTask close the chain with no
\* error and end; a failed transport read makes it release the buffer with
\* the bytes read so far, then close the chain with the error and end; no
\* transport read follows either, in that poll or later
C12_ReadTerminal ==
    /\ []ReadTerminalLog
    /\ [][/\ nrecv' - nrecv = ReleasedNew(plog')
          /\ rtask = "Done" => (nrecv' = nrecv /\ rtask' = "Done")]_vars

\* C12 witness: a read failed after another had brought bytes, and the task
\* released those bytes and closed with the error
C12_Witness ==
    /\ Evs("read_err") # {}
    /\ ReleasedNew(plog) > 0
    /\ RContent(read_buf) # <<>>
    /\ EndedWithClose("Io")

\* C13: once a pump is told to terminate, it does no read and no write on
\* the transport in that poll (WriteTask only closes it) and ends, leaving
\* the write buffer as it is; a pump that has ended does no read or write
C13_NoIoAfterTerminate ==
    /\ [](\A k \in Evs("terminate") :
             /\ \A j \in (k + 1)..Len(plog) :
                   /\ plog[j].ev \in {"poll_close", "close"}
                   /\ plog[j].wbuf = plog[k].wbuf
                   /\ plog[j].rbuf = plog[k].rbuf
             /\ write_buf = plog[k].wbuf
             /\ read_buf = plog[k].rbuf
             /\ rtask = "Done" \/ wtask.st = "Done")
    /\ [][/\ rtask = "Done" => nrecv' = nrecv
          /\ wtask.st = "Done" => wire' = wire]_vars

\* C13 witness: both pumps were told to terminate, with bytes waiting in the
\* write buffer and bytes received before
C13_Witness ==
    /\ rtask = "Done"
    /\ wtask.st = "Done"
    /\ Len(closes) = 1
    /\ closes[1].why = "terminate"
    /\ Content(write_buf) # <<>>
    /\ wire = <<>>
    /\ nrecv > 0

----------------------------------------------------------------------------
(* Properties of the TLS filter under ReadContext *)

\* the positions of effect `name` inside the release_read_buf call that
\* returns at j
InCall(j, name) == {k \in REntryOf(j)..j : plog[k].ev = name}

\* C14: when the chain's release_read_buf fails, ReadContext asks the chain
\* to shut down exactly once, sets RD_READY and wakes dispatch_task, and the
\* buffer with what was decoded before the failure is stored in read_buf;
\* a call whose chain did not fail asks for no shutdown
C14_ChainError ==
    \A j \in Evs("release_read_buf_ret") :
        /\ \A e \in InCall(j, "tls_release_read_buf_err") :
              /\ Cardinality(InCall(j, "want_shutdown")) = 1
              /\ RD_READY \in plog[j].flags
              /\ InCall(j, "wake_dispatch") # {}
              /\ InCall(j, "set_read_buf") # {}
              /\ IsSome(plog[j].rbuf)
              /\ Len(RContent(plog[j].rbuf))
                    = Len(RContent(plog[REntryOf(j)].rbuf)) + plog[e].n
        /\ InCall(j, "tls_release_read_buf_err") = {}
              => InCall(j, "want_shutdown") = {}

\* C14 witness: the session decoded a record and then failed, and the
\* decoded byte was stored
C14_Witness ==
    \E j \in Evs("release_read_buf_ret") :
        \E e \in InCall(j, "tls_release_read_buf_err") :
            /\ plog[e].n > 0
            /\ RContent(plog[j].rbuf) # <<>>
            /\ InCall(j, "want_shutdown") # {}

----------------------------------------------------------------------------
(* Liveness of the write path *)

\* everything deposited is on the wire and no write buffer is left
Drained == write_buf = None /\ Len(wire) = nsent

\* C15: on a connection that stays up, with a transport that accepts bytes
\* again and again, every deposited byte reaches the wire, in order; a
\* dispatcher waiting for the drain sees WR_WAIT and WR_BACKPRESSURE cleared
\* with the buffer drained and is woken; back-pressure that was switched on
\* is switched off with a wake
C15_WriteLiveness ==
    /\ \A n \in 1..MaxBytes : (nsent >= n) ~> (Len(wire) >= n)
    /\ [](wire = Iota(1, Len(wire)))
    /\ [](Drained => flags \cap {WR_WAIT, WR_BACKPRESSURE} = {})
    /\ (WR_WAIT \in flags)
          ~> (/\ Drained
              /\ flags \cap {WR_WAIT, WR_BACKPRESSURE} = {}
              /\ Evs("wake_dispatch") # {})
    /\ (WR_BACKPRESSURE \in flags)
          ~> (WR_BACKPRESSURE \notin flags /\ Evs("wake_dispatch") # {})

\* C15 witness: a poll drained a buffer that had back-pressure on and a
\* dispatcher waiting, cleared both flags and woke the dispatcher
C15_Witness ==
    /\ Drained
    /\ nsent = MaxBytes
    /\ Evs("wake_dispatch") # {}
    /\ \E k \in Evs("ready") :
          {WR_WAIT, WR_BACKPRESSURE} \subseteq plog[k].flags
    /\ flags \cap {WR_WAIT, WR_BACKPRESSURE} = {}

----------------------------------------------------------------------------
(* The disconnect timeout of the Processing state *)

\* the disconnect deadline is armed and has elapsed while WriteTask is in
\* the Processing state
DeadlineElapsed ==
    /\ wtask.st = "Processing"
    /\ IsSome(wtask.delay)
    /\ poll_elapsed(Unwrap(wtask.delay))

\* the last close of the chain was the one made for the elapsed deadline
ClosedTimedOut ==
    /\ closes # <<>>
    /\ closes[Len(closes)].by = "write"
    /\ closes[Len(closes)].err = "TimedOut"
    /\ closes[Len(closes)].st = "Processing"

\* C16: with the disconnect deadline armed and elapsed in the Processing
\* state, a poll of WriteTask in which poll_ready answers Ready closes the
\* chain once, with a TimedOut error, ends the task and writes nothing: not
\* a byte is added to the wire and the write buffer is left as it was
C16_DisconnectTimeout ==
    [][(DeadlineElapsed /\ wpolls' # wpolls /\ Evs("ready")' # {})
          => (/\ wtask'.st = "Done"
              /\ Len(closes') = Len(closes) + 1
              /\ ClosedTimedOut'
              /\ term'.stopped /\ term'.error = "TimedOut"
              /\ wire' = wire
              /\ write_buf' = write_buf
              /\ Evs("write")' = {}
              /\ halfClosed' = halfClosed /\ ioClosed' = ioClosed)]_vars

\* C16 witness: WriteTask ended on the elapsed deadline with deposited bytes
\* still unwritten in the write buffer
C16_Witness ==
    /\ wtask.st = "Done"
    /\ ClosedTimedOut
    /\ Evs("ready") # {}
    /\ Content(write_buf) # <<>>
    /\ Len(wire) < nsent

----------------------------------------------------------------------------
(* The buffers the TLS client filter keeps *)

\* the returns of TlsClientFilter::release_read_buf in the last handler; the
\* event carries <<src, the session's partial record before, and after>>
TlsReadReturns ==
    Evs("tls_release_read_buf_ok") \cup Evs("tls_release_read_buf_err")

\* the returns of TlsClientFilter::release_write_buf in the last handler
TlsWriteReturns ==
    Evs("tls_release_write_buf_ok") \cup Evs("tls_release_write_buf_err")

\* s is the rest of t after some prefix of it
IsSuffix(s, t) == \E k \in 0..Len(t) : s = SubSeq(t, k + 1, Len(t))

\* C17 as stated: when release_read_buf or release_write_buf of the TLS
\* filter has returned, the filter's read_buf and write_buf hold no bytes
C17_Original ==
    /\ \A j \in TlsReadReturns : RContent(plog[j].tbuf) = <<>>
    /\ TlsWriteReturns # {} => Content(tls_write_buf) = <<>>

\* the read_buf slot as release_read_buf leaves it at event j: all of src
\* while the session is handshaking; past the handshake the rest of src
\* behind the bytes the session took, these being accounted for by the
\* records decoded in the call and the partial record the session holds
HeldAfterRead(j) ==
    LET src == plog[j].arg[1]
        held == RContent(plog[j].tbuf)
    IN IF chain = "tls_hs"
       THEN held = src
       ELSE /\ IsSuffix(held, src)
            /\ Len(plog[j].arg[2]) + (Len(src) - Len(held))
                  = plog[j].n * RecordLen + Len(plog[j].arg[3])

\* C17 amended: release_read_buf returning Ok leaves in the filter's read_buf
\* exactly the bytes of src the session has not taken (all of src while
\* handshaking), and returning Err leaves it empty; the filter's write_buf
\* never holds a byte: release_write_buf returns Ok only when the session
\* took all of src, every sent byte then being in the session or handed to
\* the inner filter, and with a rest of src left the call panics
C17_Amended ==
    /\ \A j \in Evs("tls_release_read_buf_ok") : HeldAfterRead(j)
    /\ \A j \in Evs("tls_release_read_buf_err") : plog[j].tbuf = None
    /\ tls_write_buf = None
    /\ wfail = "None"
          => Iota(1, nsent) = TlsPlain(Content(write_buf)) \o tls_wsess
    /\ \A j \in Evs("panic") : wfail = "Panic" /\ plog[j].arg # <<>>
    /\ \A j \in Evs("tls_release_write_buf_ok") : wfail = "None"

\* C17 witness: past the handshake release_read_buf returned Ok with raw
\* bytes left in the filter's read_buf
C17_Witness ==
    /\ chain = "tls"
    /\ \E j \in Evs("tls_release_read_buf_ok") :
          /\ RContent(plog[j].tbuf) # <<>>
          /\ Len(RContent(plog[j].tbuf)) < Len(plog[j].arg[1])

----------------------------------------------------------------------------
(* The count TlsClientFilter::release_read_buf returns *)

\* the transport reported EOF in the last handler before position j
EofBefore(j) == \E k \in Evs("read_eof") : k < j

\* C18 as stated: release_read_buf of the TLS filter returns Ok(0) only
\* when the stream has reached EOF
C18_Original ==
    \A j \in Evs("tls_release_read_buf_ok") : plog[j].n = 0 => EofBefore(j)

\* the raw bytes the session has to decode in the call returning at j: its
\* partial record and what it read of src
SessionRaw(j) ==
    Len(plog[j].arg[2])
        + (Len(plog[j].arg[1]) - Len(RContent(plog[j].tbuf)))

\* the decoded buffer grew by n in the ReadContext call returning at jr
GrewBy(jr, n) ==
    Len(RContent(plog[jr].rbuf))
        = Len(RContent(plog[REntryOf(jr)].rbuf)) + n

\* C18 amended: while the session is handshaking release_read_buf returns
\* Ok(1) and leaves dst alone; past the handshake it returns the number of
\* plaintext bytes it appended to dst, one per whole record of the raw bytes
\* the session has, which is 0 whenever these complete no record, at EOF
\* or not
C18_Amended ==
    \A jr \in Evs("release_read_buf_ret") :
        \A j \in InCall(jr, "tls_release_read_buf_ok") :
            IF chain = "tls_hs"
            THEN plog[j].n = 1 /\ GrewBy(jr, 0)
            ELSE /\ plog[j].n = SessionRaw(j) \div RecordLen
                 /\ GrewBy(jr, plog[j].n)

\* C18 witness: past the handshake the filter took raw bytes that complete
\* no record and returned Ok(0) although the transport reported no EOF
C18_Witness ==
    /\ chain = "tls"
    /\ Evs("read_eof") = {}
    /\ \E j \in Evs("tls_release_read_buf_ok") :
          /\ plog[j].n = 0
          /\ SessionRaw(j) > 0
          /\ RContent(plog[j].tbuf) = <<>>

----------------------------------------------------------------------------
(* The HTTP protocol TlsClientFilter::query reports *)

\* C19 as stated: queried for HttpProtocol, the filter answers Http2 when
\* the negotiated ALPN protocol is h2 and Http1 in every other case: no
\* protocol negotiated, or a name other than h2, one that contains the
\* bytes "h2" included
C19_Http2IffH2 ==
    \A q \in {queried[i] : i \in DOMAIN queried} :
        q.id = "HttpProtocol"
            => q.ret = Some(IF alpn = Some(H2) THEN "Http2" ELSE "Http1")

----------------------------------------------------------------------------
(* TlsClientFilter::create *)

\* create returned Ok(io): the last complete_io gave Ok and the session has
\* left the handshake
ReturnedOkAfterHandshake ==
    cr.ret = "Ok"
        => (cr.result = "Ok" /\ chain = "tls"
              /\ Len(tls_taken) >= HandshakeLen)

\* a pass of the loop in which complete_io gave WouldBlock ends in the await
\* for read readiness, unless writing the TLS output failed
WouldBlockWaits ==
    (cr.pc = "Loop" /\ cr' # cr /\ cr'.result = "WouldBlock")
        => \/ cr'.pc = "AwaitBlock" /\ cr'.wants_read
           \/ cr'.pc = "Returned" /\ cr'.ret = "Err"

\* the await after WouldBlock is left for the top of the loop when the io is
\* read-ready, and for an error return when the io has stopped
WaitEnds ==
    (cr.pc = "AwaitBlock" /\ cr' # cr)
        => \/ /\ cr'.pc = "Loop"
              /\ ~term.stopped /\ RD_READY \in flags
           \/ /\ cr'.pc = "Returned"
              /\ term.stopped
              /\ cr'.ret = IF term.error = "None" THEN "Disconnected"
                           ELSE "Err"

\* a failed complete_io, and a stopped io seen by either await, make create
\* return an error
ErrorsReturned ==
    /\ (cr.pc = "Loop" /\ cr' # cr /\ cr'.result = "Err")
          => (cr'.pc = "Returned" /\ cr'.ret = "Err")
    /\ (cr.pc \in {"AwaitOk", "AwaitBlock"} /\ term.stopped)
          => (cr'.pc = "Returned" /\ cr'.ret \in {"Disconnected", "Err"})

\* C20: create returns Ok(io) only when complete_io has succeeded and the
\* handshake is over; it never returns WouldBlock: after a WouldBlock it
\* awaits read readiness and then runs complete_io again; it returns an
\* error when the io has stopped (poll_read_ready gives None or Err) or
\* complete_io failed with another error
C20_Create ==
    /\ [](ReturnedOkAfterHandshake /\ cr.ret # "WouldBlock")
    /\ [][WouldBlockWaits /\ WaitEnds /\ ErrorsReturned]_cr

\* C20 witness: the first complete_io gave WouldBlock, create waited, the
\* read pump delivered the peer's bytes and made the io read-ready, and
\* create is back at the top of the loop with bytes to hand to the session
C20_Witness ==
    /\ cr.pc = "Loop"
    /\ cr.result = "WouldBlock"
    /\ Len(tls_taken) < HandshakeLen
    /\ RContent(tls_read_buf) # <<>>

----------------------------------------------------------------------------
(* Back-pressure at the boundary of 2 x the write high watermark *)

\* the release_write_buf calls of the last handler that put a buffer back
\* (a partially drained one) and began with WR_BACKPRESSURE set
PartialUnderBackpressure ==
    {j \in Evs("release_write_buf_ret") :
        /\ IsSome(plog[j].wbuf)
        /\ WR_BACKPRESSURE \in plog[EntryOf(j)].flags}

\* C21 as stated: re-depositing a partially drained buffer with
\* WR_BACKPRESSURE set clears the flag whenever the remaining length is less
\* than or equal to 2 x the write high watermark
C21_Original ==
    \A j \in PartialUnderBackpressure :
        Len(Unwrap(plog[j].wbuf)) <= BackpressureLimit
            => WR_BACKPRESSURE \notin plog[j].flags

\* C21 amended: the flag is cleared exactly when the remaining length is
\* strictly less than 2 x the write high watermark; a buffer drained to
\* exactly 2 x the high watermark keeps back-pressure on
C21_Amended ==
    \A j \in PartialUnderBackpressure :
        WR_BACKPRESSURE \notin plog[j].flags
            <=> Len(Unwrap(plog[j].wbuf)) < BackpressureLimit

\* C21 witness: a flush wrote part of a buffer under back-pressure and put
\* back exactly 2 x the high watermark, and the flag stayed
C21_Witness ==
    \E j \in PartialUnderBackpressure :
        /\ Evs("write") # {}
        /\ Len(Unwrap(plog[j].wbuf)) = BackpressureLimit
        /\ WR_BACKPRESSURE \in plog[j].flags

----------------------------------------------------------------------------
(* The flag policy of ReadContext::release_read_buf *)

\* the call returning at j was given an empty buffer
EmptyRelease(j) == InCall(j, "pool_release") # {}

\* the chain of the call returning at j returned Ok
ChainOk(j) == InCall(j, "tls_release_read_buf_err") = {}

\* the count the chain returned in the call returning at j: the TLS filter's
\* own count, and the nbytes argument over Base alone
ChainCount(j) ==
    IF InCall(j, "tls_release_read_buf_ok") # {}
    THEN plog[CHOOSE e \in InCall(j, "tls_release_read_buf_ok") : TRUE].n
    ELSE plog[REntryOf(j)].n

\* the flags the policy inserts for the decoded buffer left by the call
\* returning at j
PolicyFlags(j) ==
    IF Len(RContent(plog[j].rbuf)) > ReadHw
    THEN {RD_READY, RD_BUF_FULL} ELSE {RD_READY}

\* C22 as stated: an empty buffer changes no flag and wakes nobody; for a
\* buffer that is not empty and a chain that returns Ok, RD_READY is set,
\* with RD_BUF_FULL when the decoded buffer is longer than the read high
\* watermark, and dispatch_task is woken
C22_Original ==
    \A j \in Evs("release_read_buf_ret") :
        IF EmptyRelease(j)
        THEN plog[j].flags = plog[REntryOf(j)].flags /\ RWakesIn(j) = {}
        ELSE ChainOk(j)
                => /\ plog[j].flags
                        = plog[REntryOf(j)].flags \cup PolicyFlags(j)
                   /\ RWakesIn(j) # {}

\* C22 amended: the flags are set and dispatch_task is woken, once, only
\* when the chain returns Ok(n) with n > 0; when it returns Ok(0) the
\* decoded buffer is stored, no flag changes and nobody is woken
C22_Amended ==
    \A j \in Evs("release_read_buf_ret") :
        IF EmptyRelease(j)
        THEN plog[j].flags = plog[REntryOf(j)].flags /\ RWakesIn(j) = {}
        ELSE ChainOk(j)
                => IF ChainCount(j) > 0
                   THEN /\ plog[j].flags
                             = plog[REntryOf(j)].flags \cup PolicyFlags(j)
                        /\ Cardinality(RWakesIn(j)) = 1
                   ELSE /\ plog[j].flags = plog[REntryOf(j)].flags
                        /\ RWakesIn(j) = {}
                        /\ InCall(j, "set_read_buf") # {}
                        /\ IsSome(plog[j].rbuf)

\* C22 witness: a buffer that is not empty went through a chain that
\* returned Ok(0), and the call set no flag and woke nobody
C22_Witness ==
    \E j \in Evs("release_read_buf_ret") :
        /\ ~EmptyRelease(j)
        /\ ChainOk(j)
        /\ ChainCount(j) = 0
        /\ RD_READY \notin plog[j].flags
        /\ RWakesIn(j) = {}

----------------------------------------------------------------------------
(* A write that accepts nothing *)

\* positions in plog of the close(..) made at the place `why`
ClosesAt(why) ==
    {j \in Evs("close") : closes[plog[j].nclose + 1].why = why}

\* C23: a poll_write that takes 0 bytes while data remains is fatal: the
\* buffer goes to the pool and is not deposited again, the chain is closed
\* with WriteZero and the WriteTask is finished; a flush_io whose write loop
\* ends without a failure releases the buffer and then calls poll_flush,
\* and every flush_io that wrote bytes and did not fail calls poll_flush
C23_WriteZeroFatal ==
    /\ \A j \in ClosesAt("write_zero") :
          /\ closes[plog[j].nclose + 1].err = "WriteZero"
          /\ plog[j - 1].ev = "pool_release"
          /\ Evs("release_write_buf") = {}
          /\ Evs("set_write_buf") = {}
          /\ Evs("poll_flush") = {}
          /\ write_buf = None
          /\ wtask.st = "Done"
    /\ \A j \in Evs("release_write_buf_ret") :
          j < Len(plog) /\ plog[j + 1].ev = "poll_flush"
    /\ \A j \in Evs("poll_flush") : plog[j - 1].ev = "release_write_buf_ret"
    /\ (Evs("write") # {} /\ ClosesAt("write_zero") = {}
            /\ ClosesAt("write_err") = {})
          => Evs("poll_flush") # {}

\* C23 witness: the transport took a byte, then took 0 bytes with data left,
\* still in the Processing state
C23_Witness ==
    /\ Evs("write") # {}
    /\ \E j \in ClosesAt("write_zero") :
          /\ closes[plog[j].nclose + 1].st = "Processing"
          /\ Len(wire) < nsent
    /\ term.error = "WriteZero"

----------------------------------------------------------------------------
(* The Shutdown status in the Processing state *)

\* the task state the Shutdown arm at position j of plog moved to
ShutdownTo(j) == plog[j].arg[2]

\* the disconnect timer the task held when the Shutdown arm at j was entered
DelayBefore(j) == plog[j].arg[1]

\* C24 as stated: Shutdown(d) in Processing moves the task to the Shutdown
\* state with sub-state None and a disconnect delay of d, whatever statuses
\* were seen before
C24_Original ==
    \A j \in Evs("shutdown") :
        /\ ShutdownTo(j).st = "Shutdown"
        /\ ShutdownTo(j).sub = "None"
        /\ ShutdownTo(j).delay = Some(sleep(plog[j].n))

\* C24 amended: the delay is d only when no Timeout armed the disconnect
\* timer before; a timer armed by an earlier Timeout(d') is carried over as
\* it is, with its own duration d' and the time already run
C24_Amended ==
    \A j \in Evs("shutdown") :
        /\ ShutdownTo(j).st = "Shutdown"
        /\ ShutdownTo(j).sub = "None"
        /\ ShutdownTo(j).delay
              = IF IsSome(DelayBefore(j)) THEN DelayBefore(j)
                ELSE Some(sleep(plog[j].n))

\* C24 witness: Shutdown(d) arrived after a Timeout(d') with d' # d had
\* armed the timer, and the task is in Shutdown with the timer of d'
C24_Witness ==
    \E j \in Evs("shutdown") :
        /\ IsSome(DelayBefore(j))
        /\ Unwrap(DelayBefore(j)).time # plog[j].n
        /\ wtask.st = "Shutdown"
        /\ Unwrap(wtask.delay).time = Unwrap(DelayBefore(j)).time

----------------------------------------------------------------------------
(* The bytes discarded while waiting for the peer's EOF *)

\* the closes made because the peer sent too much after the half-close
TooMuchCloses == {i \in 1..Len(closes) : closes[i].why = "too_much"}

\* C25 as stated: the task discards at most 4096 bytes in total
C25_Original == wtask.count <= DrainLimit

\* C25 amended: the total is checked after each read of up to 512 bytes, and
\* the task closes only once the total is above 4096.  A task that goes on
\* has discarded at most 4096 bytes, and a task that closed for too much
\* input has discarded more than 4096 and at most 4096 + 512 bytes
C25_Amended ==
    /\ wtask.count <= DrainLimit + DrainBufLen
    /\ wtask.st # "Done" => wtask.count <= DrainLimit
    /\ \A i \in TooMuchCloses :
          /\ wtask.count > DrainLimit
          /\ wtask.st = "Done"
          /\ halfClosed

\* C25 witness: the task closed after discarding 4096 + 512 bytes
C25_Witness ==
    /\ TooMuchCloses # {}
    /\ wtask.count = DrainLimit + DrainBufLen

----------------------------------------------------------------------------
(* The batch of transport reads of one ReadTask iteration *)

\* the effect that follows position j of plog, "end" after the last one
NextEv(j) == IF j < Len(plog) THEN plog[j + 1].ev ELSE "end"

\* C26: after a read that brought bytes, the next transport read of the
\* iteration is issued exactly when the bytes accumulated so far are at most
\* the read high watermark, otherwise the buffer is released; and a batch
\* ends only after a read that raised the total above the high watermark, a
\* Pending read, EOF or an error, its total being handed to release_read_buf
C26_BatchBound ==
    /\ \A j \in Evs("new_bytes") :
          IF plog[j].n <= ReadHw
          THEN NextEv(j) = "read"
          ELSE NextEv(j) = "release_read_buf" /\ plog[j + 1].n = plog[j].n
    /\ \A j \in Evs("release_read_buf") :
          /\ j > 1
          /\ plog[j - 1].ev \in {"new_bytes", "read", "read_eof", "read_err"}
          /\ plog[j - 1].ev = "new_bytes" => plog[j - 1].n > ReadHw
    /\ \A j \in Evs("read_eof") \cup Evs("read_err") :
          NextEv(j) \in {"release_read_buf", "close"}

\* C26 witness: a batch went on at exactly the high watermark and ended
\* with the read that raised the total above it
C26_Witness ==
    \E i, j \in Evs("new_bytes") :
        /\ i < j
        /\ plog[i].n = ReadHw
        /\ plog[j].n > ReadHw
        /\ NextEv(j) = "release_read_buf"

----------------------------------------------------------------------------
(* poll_read_ready before every batch of transport reads *)

\* the last time before position j of plog the task asked the chain whether
\* to read, 0 when it did not
LastPollReady(j) ==
    IF \E i \in Evs("poll_ready") : i < j
    THEN CHOOSE i \in Evs("poll_ready") :
             i < j /\ \A k \in Evs("poll_ready") : k < j => k <= i
    ELSE 0

\* the transport reads after which a batch was released and another read
\* followed in the same poll
ReadAfterBatch ==
    {j \in Evs("read") :
        \E i \in Evs("read"), k \in Evs("release_read_buf_ret") :
            i < k /\ k < j}

\* C27: every transport read follows a poll_read_ready that answered Ready
\* in the same iteration, no buffer having been released in between; a
\* Pending answer ends the poll with the read buffers where they were and
\* the transport untouched; the chain's answer is what the task acts on, so
\* while RD_BUF_FULL is set no batch starts
C27_ReadyBeforeRead ==
    /\ \A j \in Evs("read") :
          LET i == LastPollReady(j)
          IN /\ i > 0
             /\ plog[i].arg = <<"Ready">>
             /\ \A k \in i..j : plog[k].ev # "release_read_buf_ret"
    /\ \A j \in Evs("poll_ready") :
          /\ RD_BUF_FULL \in plog[j].flags => plog[j].arg # <<"Ready">>
          /\ plog[j].arg = <<"Pending">>
                => /\ j = Len(plog)
                   /\ read_buf = plog[j].rbuf
                   /\ tls_read_buf = plog[j].tbuf
                   /\ rtask # "Done"
          /\ plog[j].arg = <<"Ready">>
                => j < Len(plog) /\ plog[j + 1].ev = "read"

\* C27 witness: a second batch of reads in one poll, the chain having been
\* asked again after the first batch was released
C27_Witness ==
    \E j \in ReadAfterBatch :
        /\ LastPollReady(j) > 1
        /\ plog[LastPollReady(j) - 1].ev = "release_read_buf_ret"

----------------------------------------------------------------------------
(* The shutdown sweep at the end of both release calls *)

\* the shutdown_filters calls made inside the release_write_buf call that
\* returns at position j of plog
WriteSweeps(j) ==
    {k \in EntryOf(j)..j : plog[k].ev = "shutdown_filters"}

\* C28: a release_write_buf or release_read_buf call that finishes while
\* IO_FILTERS is set calls shutdown_filters exactly once, as its last
\* effect, after the buffer and the flags were updated; a call that
\* finishes while IO_FILTERS is clear does not call it
C28_SweepOnce ==
    /\ \A j \in Evs("release_write_buf_ret") :
          WriteSweeps(j)
              = IF IO_FILTERS \in plog[j].flags THEN {j - 1} ELSE {}
    /\ \A j \in Evs("release_read_buf_ret") :
          InCall(j, "shutdown_filters")
              = IF IO_FILTERS \in plog[j].flags THEN {j - 1} ELSE {}
    /\ \A k \in Evs("shutdown_filters") :
          plog[k + 1].ev \in {"release_write_buf_ret", "release_read_buf_ret"}

\* C28 witness: a release_write_buf call turned back-pressure off, stored
\* the rest of the buffer and then ran the sweep
C28_Witness ==
    \E j \in Evs("release_write_buf_ret") :
        /\ WriteSweeps(j) = {j - 1}
        /\ plog[j - 2].ev = "set_write_buf"
        /\ \E k \in EntryOf(j)..j : plog[k].ev = "set_flags"

\* the read side of the same case: a release_read_buf call stored the
\* buffer, set the flags, woke the dispatcher and then ran the sweep
ReadSweepReached ==
    \E j \in Evs("release_read_buf_ret") :
        /\ InCall(j, "shutdown_filters") = {j - 1}
        /\ InCall(j, "insert_flags") # {}
        /\ InCall(j, "set_read_buf") # {}

----------------------------------------------------------------------------
(* The TLS filter's release_read_buf during the handshake *)

\* positions in plog of the TLS filter's release_read_buf calls made while
\* the session is handshaking
HsReleases ==
    IF chain = "tls_hs" THEN Evs("tls_release_read_buf_ok") ELSE {}

\* the return of the ReadContext call that the filter call at j is part of
RetOf(j) ==
    CHOOSE k \in Evs("release_read_buf_ret") :
        k > j /\ \A m \in Evs("release_read_buf_ret") : m > j => k <= m

\* the bytes of the src buffer given to the filter call at j
SrcOf(j) == plog[j].arg[1]

\* s is the start of t
StartsWith(t, s) == Len(s) <= Len(t) /\ SubSeq(t, 1, Len(s)) = s

\* the handshaking call at j kept src as it was in the filter's read_buf,
\* gave nothing to the session, left the decoded buffer where it was and
\* answered Ok(1)
HsStored(j) ==
    /\ plog[j].n = 1
    /\ IsSome(plog[j].tbuf)
    /\ Unwrap(plog[j].tbuf).d = SrcOf(j)
    /\ plog[RetOf(j)].tbuf = plog[j].tbuf
    /\ plog[j].arg[2] = plog[j].arg[3]
    /\ plog[RetOf(j)].rbuf = plog[REntryOf(RetOf(j))].rbuf
    /\ InCall(RetOf(j), "set_read_buf") = {} => plog[RetOf(j)].rbuf = None

\* the first handshaking call of the poll that leads to the next state was
\* given the bytes the filter holds now, followed by what was read
HsHandedOut ==
    (chain = "tls_hs" /\ IsSome(tls_read_buf) /\ HsReleases' # {})
        => \E j \in HsReleases' :
              /\ \A k \in HsReleases' : j <= k
              /\ StartsWith(SrcOf(j)', Unwrap(tls_read_buf).d)

\* C29: while the session is handshaking, release_read_buf keeps src
\* unchanged in the filter's own read buffer, hands nothing to the inner
\* filter or the session, leaves dst untouched and returns Ok(1); the next
\* get_read_buf hands out the bytes the filter then holds, so the buffer of
\* the following call starts with them
C29_HandshakeStore ==
    /\ [](\A j \in HsReleases : HsStored(j))
    /\ [](\A i, j \in HsReleases : i < j => StartsWith(SrcOf(j), SrcOf(i)))
    /\ [][HsHandedOut]_vars

\* C29 witness: two handshaking calls in one poll, the second given the
\* bytes the first had stored and one more
C29_Witness ==
    \E i, j \in HsReleases :
        /\ i < j
        /\ SrcOf(i) # <<>>
        /\ Len(SrcOf(j)) > Len(SrcOf(i))
        /\ read_buf = None

----------------------------------------------------------------------------
(* WR_WAIT and the drained write buffer *)

\* the release_write_buf call returning at j was given an empty buffer
EmptyWrite(j) == \E k \in EntryOf(j)..j : plog[k].ev = "pool_release"

\* the returns in plog of release_write_buf calls that cleared WR_WAIT
WaitCleared == {j \in Evs("release_write_buf_ret") : WR_WAIT \in ClearedBy(j)}

\* C30: a release_write_buf call given a buffer that is not empty leaves
\* WR_WAIT as it was; a call given an empty buffer clears a set WR_WAIT,
\* stores the flags and then wakes dispatch_task; and WR_WAIT is never
\* cleared in a step other than a poll with such a call
C30_WaitUntilDrained ==
    /\ [](\A j \in Evs("release_write_buf_ret") :
            IF EmptyWrite(j)
            THEN /\ WR_WAIT \notin plog[j].flags
                 /\ plog[j].wbuf = None
                 /\ WR_WAIT \in plog[EntryOf(j)].flags
                       => \E k \in WakesIn(j) : WR_WAIT \notin plog[k].flags
            ELSE /\ IsSome(plog[j].wbuf)
                 /\ WR_WAIT \in plog[j].flags
                       <=> WR_WAIT \in plog[EntryOf(j)].flags)
    /\ [][(WR_WAIT \in flags /\ WR_WAIT \notin flags')
             => (\E j \in WaitCleared' : EmptyWrite(j)')]_vars

\* C30 witness: a partial flush left WR_WAIT set while it turned
\* back-pressure off and woke the dispatcher
C30_Witness ==
    \E j \in Evs("release_write_buf_ret") :
        /\ ~EmptyWrite(j)
        /\ ClearedBy(j) = {WR_BACKPRESSURE}
        /\ WR_WAIT \in flags
        /\ wire # <<>>
        /\ Len(Unwrap(plog[j].wbuf)) = 1

\* the other case of C30: the flush that drained the buffer ended the wait
DrainedWaitReached ==
    \E j \in WaitCleared : EmptyWrite(j) /\ Len(wire) = nsent /\ nsent > 1

----------------------------------------------------------------------------
(* The disconnect deadline of the Processing state *)

\* the step is a poll of WriteTask
IsWritePoll == wpolls' # wpolls

\* an armed deadline stays as it is through every poll of the task, which
\* covers a later Timeout, a flush on Ready and the move to Shutdown
DeadlineKept ==
    (wtask.st = "Processing" /\ IsSome(wtask.delay) /\ IsWritePoll)
        => wtask'.delay = wtask.delay

\* a deadline is armed only by a poll in the Processing state, and it is
\* armed as a timer that has not elapsed
DeadlineArmed ==
    (wtask.delay = None /\ IsSome(wtask'.delay))
        => /\ wtask.st = "Processing"
           /\ IsWritePoll
           /\ Unwrap(wtask'.delay) \in {sleep(d) : d \in Millis}

\* C31: in Processing the disconnect deadline is armed by the first Timeout
\* only: no later status of a poll re-arms, extends or disarms it, a flush
\* on Ready leaves it armed, and it is carried into the Shutdown state
C31_DeadlineArmedOnce == [][DeadlineKept /\ DeadlineArmed]_vars

\* C31 witness: a deadline armed in Processing ran out, Shutdown(d'') with
\* another duration arrived, the old deadline was carried over and closed
\* the task at once, bytes having been flushed while it was armed or before
C31_Witness ==
    /\ \E j \in Evs("shutdown") :
          /\ IsSome(DelayBefore(j))
          /\ Unwrap(DelayBefore(j)).elapsed
          /\ Unwrap(DelayBefore(j)).time # plog[j].n
          /\ wtask.delay = DelayBefore(j)
    /\ wire # <<>>
    /\ closes # <<>>
    /\ closes[Len(closes)].why = "delay"

----------------------------------------------------------------------------
(* The borrows of the TLS filter's `inner` RefCell *)

\* C32: no call of the TLS filter borrows `inner` again while the mutable
\* borrow it took earlier is alive, so no call ends in the RefCell's panic:
\* release_write_buf stages what the session did not take in write_buf
C32_NoConflictingBorrow ==
    /\ wfail # "Panic"
    /\ Evs("panic") = {}

----------------------------------------------------------------------------
(* A full buffer and the end of the stream *)

\* C33: the read loop ends with close = true, which ReadTask answers with
\* close(None), only after the transport returned a read of 0 bytes:
\* poll_read_buf is never given a buffer without spare capacity, for every
\* pool configuration of the low and high watermarks
C33_EofOnlyFromTransport == rloop.how # "full"

\* the part of C33 that holds: with a low watermark of at least 1 the loop
\* makes room before every read
EofFromTransportAboveZero == rloop.lw >= 1 => rloop.how # "full"

\* C37: whenever the spare capacity is below the low watermark, hw -
\* remaining does not underflow, and the amount reserved is positive
C37_ReserveNoUnderflow ==
    /\ rloop.st # "Failed"
    /\ IsSome(rloop.reserved)
          => /\ rloop.before < rloop.lw
             /\ Unwrap(rloop.reserved) = rloop.hw - rloop.before
             /\ Unwrap(rloop.reserved) >= 1
    /\ (rloop.st # "Idle" /\ rloop.how # "none" /\ rloop.reserved = None)
          => rloop.before >= rloop.lw

\* C37 witness: room was reserved for a buffer that had spare capacity
\* left, in a pool whose watermarks are equal
C37_Witness ==
    /\ IsSome(rloop.reserved)
    /\ rloop.before > 0
    /\ rloop.hw = rloop.lw
    /\ Unwrap(rloop.reserved) = 1

----------------------------------------------------------------------------
(* The close calls of a pump that ends *)

\* the close calls made in a step
NewCloses == SubSeq(closes', Len(closes) + 1, Len(closes'))

\* the step in which the WriteTask future, or the ReadTask future, completes
WriteEnds == wtask.st # "Done" /\ wtask'.st = "Done"
ReadEnds == rtask # "Done" /\ rtask' = "Done"

\* the places inside flush_io that close the chain
FlushIoCloses == {"write_zero", "write_err", "flush_err"}

\* what the two statements of C34 share: close is called only by a pump
\* that ends; the ReadTask told to terminate calls none, and the ReadTask
\* that ends on EOF or on a read error calls it exactly once
ReadEndsWithOneClose ==
    /\ closes' # closes => (WriteEnds \/ ReadEnds)
    /\ ReadEnds =>
          IF Evs("terminate")' # {}
          THEN closes' = closes
          ELSE /\ Len(NewCloses) = 1
               /\ NewCloses[1].by = "read"
               /\ NewCloses[1].why \in {"eof", "read_err"}

\* C34 as stated: every pump that ends, the ReadTask told to terminate
\* excepted, has called close() exactly once, the WriteTask on every one of
\* its exits
C34_Original ==
    [][/\ ReadEndsWithOneClose
       /\ WriteEnds => (Len(NewCloses) = 1 /\ NewCloses[1].by = "write")]_vars

\* C34 amended: the WriteTask that ends has called close() at least once:
\* twice when flush_io failed in the Shutdown state (flush_io closes with
\* the error, then WriteTask closes with None), once on every other exit
C34_Amended ==
    [][/\ ReadEndsWithOneClose
       /\ WriteEnds =>
             /\ Len(NewCloses) \in {1, 2}
             /\ \A i \in 1..Len(NewCloses) : NewCloses[i].by = "write"
             /\ Len(NewCloses) = 2
                   <=> (/\ NewCloses[1].why \in FlushIoCloses
                        /\ NewCloses[1].st = "Shutdown")
             /\ Len(NewCloses) = 2
                   => (/\ NewCloses[2].why = "flush_failed"
                       /\ NewCloses[2].err = "None"
                       /\ NewCloses[1].err # "None")]_vars

\* C34 witness: both pumps ended; the WriteTask closed twice after a flush
\* that failed in the Shutdown state, and the ReadTask closed once on EOF
C34_Witness ==
    /\ wtask.st = "Done" /\ rtask = "Done"
    /\ Len(closes) = 3
    /\ closes[1].why = "flush_err" /\ closes[1].st = "Shutdown"
    /\ closes[2].why = "flush_failed"
    /\ closes[3].by = "read" /\ closes[3].why = "eof"

----------------------------------------------------------------------------
(* The flags the release calls leave alone *)

\* the last position of the call returning at j that precedes the shutdown
\* sweep: the sweep itself when the call ran it, the return otherwise
BeforeSweep(j) == IF plog[j - 1].ev = "shutdown_filters" THEN j - 1 ELSE j

\* the release_write_buf call returning at j changed, up to the sweep, no
\* flag but WR_WAIT and WR_BACKPRESSURE, and set neither
WriteFrame(j) ==
    \A k \in EntryOf(j)..BeforeSweep(j) :
        /\ plog[k].flags \ {WR_WAIT, WR_BACKPRESSURE}
              = plog[EntryOf(j)].flags \ {WR_WAIT, WR_BACKPRESSURE}
        /\ plog[k].flags \subseteq plog[EntryOf(j)].flags

\* the release_read_buf call returning at j removed, up to the sweep, no
\* flag and inserted none but RD_READY and RD_BUF_FULL
ReadFrame(j) ==
    \A k \in REntryOf(j)..BeforeSweep(j) :
        /\ plog[REntryOf(j)].flags \subseteq plog[k].flags
        /\ plog[k].flags
              \subseteq plog[REntryOf(j)].flags \cup {RD_READY, RD_BUF_FULL}

\* C35: before the shutdown sweep, release_write_buf changes no flag other
\* than WR_WAIT and WR_BACKPRESSURE and sets neither; release_read_buf only
\* inserts RD_READY and RD_BUF_FULL, and when the chain returns Ok(0) it
\* changes no flag at any point of the call and wakes nobody
C35_FlagFrame ==
    /\ \A j \in Evs("release_write_buf_ret") : WriteFrame(j)
    /\ \A j \in Evs("release_read_buf_ret") :
          /\ ReadFrame(j)
          /\ (ChainOk(j) /\ ChainCount(j) = 0)
                => /\ \A k \in REntryOf(j)..BeforeSweep(j) :
                         plog[k].flags = plog[REntryOf(j)].flags
                   /\ RWakesIn(j) = {}

\* C35 witness: with IO_FILTERS set, a release_read_buf call inserted
\* RD_READY and RD_BUF_FULL, kept IO_FILTERS and ran the sweep
C35_Witness ==
    \E j \in Evs("release_read_buf_ret") :
        /\ BeforeSweep(j) = j - 1
        /\ IO_FILTERS \in plog[REntryOf(j)].flags
        /\ RD_READY \notin plog[REntryOf(j)].flags
        /\ plog[j - 1].flags
              = plog[REntryOf(j)].flags \cup {RD_READY, RD_BUF_FULL}

\* the write side of the same case: with IO_FILTERS and WR_WAIT set, a
\* release_write_buf call cleared WR_WAIT and kept IO_FILTERS
WriteFrameReached ==
    \E j \in Evs("release_write_buf_ret") :
        /\ BeforeSweep(j) = j - 1
        /\ WR_WAIT \in plog[EntryOf(j)].flags
        /\ plog[j - 1].flags = plog[EntryOf(j)].flags \ {WR_WAIT}

\* a release_read_buf call over a chain that returned Ok(0), with a flag set
ReadFrameZeroReached ==
    \E j \in Evs("release_read_buf_ret") :
        /\ ~EmptyRelease(j)
        /\ ChainOk(j) /\ ChainCount(j) = 0
        /\ plog[j].flags # {}

----------------------------------------------------------------------------
(* The width of the drain counter *)

\* C36: the 16 bit counter of the drained bytes never overflows: while the
\* task can still read, the counter leaves room for a whole drain buffer
\* below 2^16, and no step makes the counter smaller, as a wrapped addition
\* would
C36_CountNoOverflow ==
    /\ [](wtask.st # "Done" => wtask.count + DrainBufLen < Pow2(CountBits))
    /\ [](wtask.count < Pow2(CountBits))
    /\ [][wtask'.count >= wtask.count]_vars

\* C36 witness: the task is still draining with the counter at 4096, the
\* greatest value another read is added to
C36_Witness ==
    /\ wtask.st = "Shutdown" /\ wtask.sub = "Stopping"
    /\ wtask.count = DrainLimit

====
